---------------------------- MODULE Spec2Model ----------------------------
(***************************************************************************)
(* Telemetry protocol layer of DynoWare-Free: the UART frame codec of      *)
(* VescUart and the polling dashboard VescGUI (USB-VESC.py), the Modbus    *)
(* RTU poller and the CAN session of CombinedLoggerApp (AllInOne.py).      *)
(* Each program is a group of variables with its own next-state relation   *)
(* and specification; app names the script that runs.                      *)
(***************************************************************************)
EXTENDS Integers, Sequences, FiniteSets, TLC

VARIABLES
    app,            \* the script that was launched
    \* ---- VescUart codec (USB-VESC.py) ----
    uart_payload,   \* the payload handed to _pack_payload
    uart_sent,      \* every byte put on the serial line for this exchange
    uart_wire,      \* bytes still waiting in the serial input (in_waiting)
    uart_msg,       \* `message`, the bytearray _receive_uart_message accumulates
    uart_pc,        \* "idle" | "receiving" | "returned" | "raised"
    uart_result,    \* the (success, payload) tuple _receive_uart_message returned
    \* ---- CombinedLoggerApp, Modbus RTU (AllInOne.py) ----
    ser,                \* "None" | "Open"
    logging_modbus,
    modbus_job_id,      \* "None" | "Pending": the after() handle
    modbus_log_data,    \* the log rows, each with the frames it was decoded from
    modbus_last_tick,   \* outcome of the last update_modbus_readings
    modbus_fail_streak, \* consecutive ticks that logged nothing
    modbus_series,      \* modbus_time_data, modbus_torque_data, modbus_speed_data
    \* ---- CombinedLoggerApp, CAN bus (AllInOne.py) ----
    can_device,     \* "None" | "EmptyList" | "Dev"
    dev_started,    \* the adapter has been start()ed and not stop()ped
    dev_fault,      \* the adapter was unplugged / the transport failed
    can_active,
    can_logging,
    can_log_data,
    can_plot_data,
    can_lock,       \* 0 (free) or the id of the thread holding can_lock
    can_threads,    \* number of start_can_logging calls so far (thread pairs)
    reader_pc,      \* per read_can_data thread
    reader_frame,   \* per read_can_data thread: the frame it is decoding
    sender_pc,      \* per send_keep_alive thread
    can_errors,     \* errors surfaced on the status label since connect_can
    can_rpm_label,  \* first word of the RPM label's text: -1 for "--"
    can_elapsed,    \* time.time() - can_start_time, counted in clock readings
    \* ---- VescGUI (USB-VESC.py) ----
    vesc,               \* self.vesc: 0 for None, else the id of the VescUart object
    vesc_data,          \* self.vesc.data, the VescData of the current object
    logging_running,
    vesc_log_data,
    vesc_threads,       \* poll_data threads created so far
    poll_pc,            \* per poll_data thread
    poll_obj,           \* per poll_data thread: the VescUart it is calling into
    vesc_fail_streak,   \* consecutive get_values calls that returned False
    \* ---- ModbusActiveApp (BareBonesDynoDisplay.py) ----
    bb_ser,             \* "None" | "Open"
    bb_timers,          \* after() timers pending for schedule_update
    bb_pc,              \* where the Tk main thread is inside update_readings
    bb_outstanding,     \* requests written whose read window has not ended
    bb_torque_label,    \* <<>> for "--", else <<torque in 1/100 Nm>>
    bb_speed_label,     \* <<>> for "--", else <<speed in 1/10 RPM>>
    \* ---- ModbusActiveApp (LoggerV2/logs/wattageLogger.py) ----
    wl_ser,             \* "None" | "Open"
    wl_timers,          \* after() timers pending for schedule_update
    wl_last_torque,     \* None, or <<torque in 1/100 Nm>>
    wl_last_speed,      \* None, or <<speed in 1/10 RPM>>
    wl_last_watts,      \* None, or <<watts>>
    wl_torque_label,    \* <<>> for "--", else <<torque in 1/100 Nm>>
    wl_logging_active,
    wl_logged_data,
    wl_log_timers,      \* after() timers pending for update_logging
    \* ---- functions applied to one input ----
    fn_op,              \* the function applied, "none" before any
    fn_in,              \* its input
    fn_out,             \* what it returned
    \* ---- VESCReader (USB-CAN-CurrentLOG.py) ----
    vr_device,          \* self.device: "None" | "Dev"
    vr_dev_started,     \* device.start() was called and device.stop() was not
    vr_dev_fault,       \* the adapter fails its transfers
    vr_active,
    vr_logging,
    vr_start_time,      \* 0 for None, else the number of the logging session
    vr_log_data,
    vr_plot_data,       \* the 'current' and 'voltage' series
    vr_rpm_label,       \* <<>> for "-- RPM", else <<rpm>>
    vr_status_label,    \* text of the status label
    vr_window,          \* "open" | "destroyed"
    vr_main,            \* where the Tk main thread is: "idle" | "start_logging"
    vr_threads,         \* thread pairs started by connect so far
    vr_reader_pc,       \* per read_can_data thread
    vr_frame,           \* per read_can_data thread: what its last read gave
    vr_sender_pc,       \* per send_keep_alive thread
    vr_sent,            \* the last frame passed to device.send
    \* ---- the serial line between a request and its response ----
    ln_pc,              \* "closed" | "idle" | "torque" | "speed" | "receiving"
    ln_req,             \* requests written so far; the last one is number ln_req
    ln_flight,          \* responses the device has not put on the line yet
    ln_input,           \* bytes waiting in the serial input buffer
    ln_buf,             \* response_buffer / message, the bytes read in this call
    ln_torque,          \* what the last torque query returned
    ln_speed,           \* what the last speed query returned
    ln_result           \* what the last get_values returned

uartVars == <<uart_payload, uart_sent, uart_wire, uart_msg, uart_pc, uart_result>>
modbusVars == <<ser, logging_modbus, modbus_job_id, modbus_log_data,
                modbus_last_tick, modbus_fail_streak, modbus_series>>
canVars == <<can_device, dev_started, dev_fault, can_active, can_logging,
             can_log_data, can_plot_data, can_lock, can_threads, reader_pc,
             reader_frame, sender_pc, can_errors, can_rpm_label, can_elapsed>>
vescVars == <<vesc, vesc_data, logging_running, vesc_log_data, vesc_threads,
              poll_pc, poll_obj, vesc_fail_streak>>
bareVars == <<bb_ser, bb_timers, bb_pc, bb_outstanding, bb_torque_label,
              bb_speed_label>>
wattVars == <<wl_ser, wl_timers, wl_last_torque, wl_last_speed, wl_last_watts,
              wl_torque_label, wl_logging_active, wl_logged_data,
              wl_log_timers>>
fnVars == <<fn_op, fn_in, fn_out>>
readerVars == <<vr_device, vr_dev_started, vr_dev_fault, vr_active, vr_logging,
                vr_start_time, vr_log_data, vr_plot_data, vr_rpm_label,
                vr_status_label, vr_window, vr_main, vr_threads, vr_reader_pc,
                vr_frame, vr_sender_pc, vr_sent>>
lineVars == <<ln_pc, ln_req, ln_flight, ln_input, ln_buf, ln_torque,
              ln_speed, ln_result>>
vars == <<app, uartVars, modbusVars, canVars, vescVars, bareVars, wattVars,
          fnVars, readerVars, lineVars>>

\* What the actions of one program leave unchanged.
notUart == <<app, modbusVars, canVars, vescVars, bareVars, wattVars, fnVars,
    readerVars, lineVars>>
notModbus == <<app, uartVars, canVars, vescVars, bareVars, wattVars, fnVars,
    readerVars, lineVars>>
notCan == <<app, uartVars, modbusVars, vescVars, bareVars, wattVars, fnVars,
    readerVars, lineVars>>
notVesc == <<app, uartVars, modbusVars, canVars, bareVars, wattVars, fnVars,
    readerVars, lineVars>>
notBare == <<app, uartVars, modbusVars, canVars, vescVars, wattVars, fnVars,
    readerVars, lineVars>>
notWatt == <<app, uartVars, modbusVars, canVars, vescVars, bareVars, fnVars,
    readerVars, lineVars>>
notFn == <<app, uartVars, modbusVars, canVars, vescVars, bareVars, wattVars,
    readerVars, lineVars>>
notReader == <<app, uartVars, modbusVars, canVars, vescVars, bareVars,
    wattVars, fnVars, lineVars>>
notLine == <<app, uartVars, modbusVars, canVars, vescVars, bareVars,
    wattVars, fnVars, readerVars>>

(***************************************************************************)
(* Bounds of the model.                                                    *)
(***************************************************************************)
MaxShortLen == 2      \* payloads of every length 0..MaxShortLen are enumerated
MaxModbusLog == 2     \* rows kept in the Modbus log
MaxFailStreak == 3    \* consecutive failed ticks that are counted
MaxCanStarts == 2     \* start_can_logging calls (reader/keep-alive thread pairs)
MaxCanLog == 2        \* rows kept in the CAN log
MaxCanErrors == 3     \* errors surfaced that are counted
MaxVescStarts == 2    \* VescGUI.start_logging calls (poll_data threads)
MaxVescLog == 2       \* rows kept in the VescGUI log
MaxBareTimers == 2    \* schedule_update timer chains of BareBonesDynoDisplay
MaxWattTimers == 2    \* schedule_update timer chains of wattageLogger
MaxWattLogTimers == 2 \* update_logging timer chains of wattageLogger
MaxWattLog == 2       \* rows kept in the wattageLogger log
MaxCrcLen == 3        \* byte sequences of every length 0..MaxCrcLen are hashed
MaxReaderConnects == 1 \* VESCReader.connect calls that start a thread pair
MaxReaderSessions == 1 \* VESCReader.start_logging calls
MaxReaderLog == 1     \* rows kept in the VESCReader log
MaxLineTicks == 2      \* update_modbus_readings ticks on the traced line
MaxLineCalls == 2      \* get_values calls on the traced line

(***************************************************************************)
(* Bit operations on naturals.                                             *)
(***************************************************************************)
RECURSIVE Xor(_, _)
Xor(a, b) ==
    IF a = 0 THEN b
    ELSE IF b = 0 THEN a
    ELSE (((a % 2) + (b % 2)) % 2) + (2 * Xor(a \div 2, b \div 2))

Bit(a, k) == (a \div (2 ^ k)) % 2

RECURSIVE BitOr(_, _)
BitOr(a, b) ==
    IF a = 0 THEN b
    ELSE IF b = 0 THEN a
    ELSE (IF a % 2 = 1 \/ b % 2 = 1 THEN 1 ELSE 0)
           + (2 * BitOr(a \div 2, b \div 2))

(***************************************************************************)
(* VescUart._crc16: CRC-16/CCITT, masked to 16 bits once per byte.         *)
(***************************************************************************)
Crc16RoundNoXor(crc) == crc * 2

Crc16Round(crc) ==
    IF Bit(crc, 15) = 1 THEN Xor(crc * 2, 4129) ELSE crc * 2

Crc16Byte(crc, byte) ==
    LET r0 == Xor(crc, byte * 256)
        r1 == Crc16Round(r0)
        r2 == Crc16Round(r1)
        r3 == Crc16Round(r2)
        r4 == Crc16Round(r3)
        r5 == Crc16Round(r4)
        r6 == Crc16Round(r5)
        r7 == Crc16Round(r6)
        r8 == Crc16Round(r7)
    IN  r8 % 65536

\* The for loop over data[lo..hi], split in halves to keep the evaluation
\* shallow: the bytes are still folded left to right.  A CRC is never
\* negative; the test on `left` makes TLC compute it before the second half.
RECURSIVE Crc16Range(_, _, _, _)
Crc16Range(crc, data, lo, hi) ==
    IF lo > hi THEN crc
    ELSE IF lo = hi THEN Crc16Byte(crc, data[lo])
    ELSE LET mid == (lo + hi) \div 2
             left == Crc16Range(crc, data, lo, mid)
         IN  IF left >= 0 THEN Crc16Range(left, data, mid + 1, hi) ELSE left

crc16(data) == Crc16Range(0, data, 1, Len(data))

(***************************************************************************)
(* VescUart._pack_payload.  bytes([...]) raises ValueError when an element *)
(* is outside range(256).                                                  *)
(***************************************************************************)
ValueError == <<"ValueError">>

BytesOk(s) == \A i \in 1..Len(s) : s[i] \in 0..255

PackHeader(payload) ==
    IF Len(payload) <= 256
    THEN <<2, Len(payload)>>
    ELSE <<3, Len(payload) \div 256, Len(payload) % 256>>

pack_payload(payload) ==
    IF BytesOk(PackHeader(payload))
    THEN PackHeader(payload) \o payload
           \o <<crc16(payload) \div 256, crc16(payload) % 256>> \o <<3>>
    ELSE ValueError

(***************************************************************************)
(* VescUart._receive_uart_message, one iteration of its loop with a byte   *)
(* waiting: the byte is appended, then the frame test is made.             *)
(*   "more"    the loop goes on                                            *)
(*   "true"    return True, payload                                        *)
(*   "false"   return False, b''                                           *)
(***************************************************************************)
RecvPayload(m) == SubSeq(m, 3, 2 + m[2])

RecvCrc(m) == m[Len(m) - 2] * 256 + m[Len(m) - 1]

RecvCompleteNoCrc(m) == "true"

RecvComplete(m) ==
    IF crc16(RecvPayload(m)) = RecvCrc(m) THEN "true" ELSE "false"

RecvTest(m) ==
    IF Len(m) >= 2 /\ m[1] = 2 /\ Len(m) = m[2] + 5 /\ m[Len(m)] = 3
    THEN RecvComplete(m)
    ELSE "more"

(***************************************************************************)
(* The exchanges that are tried: every payload over ByteAlphabet up to     *)
(* MaxShortLen bytes, and one payload of each length around the 1-byte     *)
(* length limit.                                                           *)
(***************************************************************************)
ByteAlphabet == {0, 3, 4}

LongLens == {255, 256, 257}

Payloads ==
    UNION {[1..k -> ByteAlphabet] : k \in 0..MaxShortLen}
      \cup {[i \in 1..n |-> 4] : n \in LongLens}

\* The serial line: it delivers the frame, or the frame with one byte changed.
LineOutputs(frame) ==
    {frame} \cup
    (IF Len(frame) > MaxShortLen + 6 THEN {}
     ELSE UNION {{[frame EXCEPT ![i] = b] : b \in {(frame[i] + 1) % 256, 3}} :
                   i \in 1..Len(frame)})

NoResult == [success |-> FALSE, message |-> <<>>]

UartInit ==
    /\ uart_payload \in Payloads
    /\ uart_sent = <<>>
    /\ uart_wire = <<>>
    /\ uart_msg = <<>>
    /\ uart_pc = "idle"
    /\ uart_result = NoResult

UartIdle ==
    /\ uart_payload = <<>>
    /\ uart_sent = <<>>
    /\ uart_wire = <<>>
    /\ uart_msg = <<>>
    /\ uart_pc = "off"
    /\ uart_result = NoResult

EmptySeries == [time |-> <<>>, torque |-> <<>>, speed |-> <<>>]

\* CombinedLoggerApp.__init__, the Modbus attributes.
ModbusInit ==
    /\ ser = "None"
    /\ logging_modbus = FALSE
    /\ modbus_job_id = "None"
    /\ modbus_log_data = <<>>
    /\ modbus_last_tick = "none"
    /\ modbus_fail_streak = 0
    /\ modbus_series = EmptySeries

CanThreads == 1..MaxCanStarts

NoFrame == [kind |-> "none"]

\* timestamp = time.time() - self.can_start_time: the session whose
\* can_start_time it is computed against (the number of start_can_logging
\* calls so far) and the elapsed time.
Timestamp == [session |-> can_threads, elapsed |-> can_elapsed]

\* A decoded frame together with the timestamp computed for it.
Stamped(f) ==
    [kind |-> f.kind, is_extended |-> f.is_extended, echo_none |-> f.echo_none,
     err |-> f.err, can_id |-> f.can_id, data |-> f.data,
     timestamp |-> Timestamp]

EmptyPlot == [time |-> <<>>, current |-> <<>>, voltage |-> <<>>]

\* CombinedLoggerApp.__init__, the CAN attributes.
CanInit ==
    /\ can_device = "None"
    /\ dev_started = FALSE
    /\ dev_fault = FALSE
    /\ can_active = FALSE
    /\ can_logging = FALSE
    /\ can_log_data = <<>>
    /\ can_plot_data = EmptyPlot
    /\ can_lock = 0
    /\ can_threads = 0
    /\ reader_pc = [t \in CanThreads |-> "none"]
    /\ reader_frame = [t \in CanThreads |-> NoFrame]
    /\ sender_pc = [t \in CanThreads |-> "none"]
    /\ can_errors = 0
    /\ can_rpm_label = -1
    /\ can_elapsed = 0

\* self.serial.write(self._pack_payload(payload)), looped back to the receiver.
UartSend ==
    /\ app = "VescUart"
    /\ uart_pc = "idle"
    /\ IF pack_payload(uart_payload) = ValueError
       THEN /\ uart_pc' = "raised"
            /\ UNCHANGED <<uart_sent, uart_wire>>
       ELSE /\ \E out \in LineOutputs(pack_payload(uart_payload)) :
                 /\ uart_sent' = out
                 /\ uart_wire' = out
            /\ uart_pc' = "receiving"
    /\ uart_msg' = <<>>
    /\ UNCHANGED <<uart_payload, uart_result>>
    /\ UNCHANGED notUart

\* One loop iteration of _receive_uart_message with in_waiting > 0.
UartRecvByte ==
    /\ app = "VescUart"
    /\ uart_pc = "receiving"
    /\ uart_wire # <<>>
    /\ LET m == Append(uart_msg, Head(uart_wire))
           t == RecvTest(m)
       IN  /\ uart_msg' = m
           /\ uart_wire' = Tail(uart_wire)
           /\ uart_pc' = IF t = "more" THEN "receiving" ELSE "returned"
           /\ uart_result' =
                IF t = "true"
                THEN [success |-> TRUE, message |-> RecvPayload(m)]
                ELSE NoResult
    /\ UNCHANGED <<uart_payload, uart_sent>>
    /\ UNCHANGED notUart

\* The while condition fails: self.timeout ms have elapsed.
UartRecvTimeout ==
    /\ app = "VescUart"
    /\ uart_pc = "receiving"
    /\ uart_pc' = "returned"
    /\ uart_result' = NoResult
    /\ UNCHANGED <<uart_payload, uart_sent, uart_wire, uart_msg>>
    /\ UNCHANGED notUart

UartNext == UartSend \/ UartRecvByte \/ UartRecvTimeout

(***************************************************************************)
(* calc_crc of "crc maker.py": the Modbus CRC-16 (seed 0xFFFF, reflected,  *)
(* polynomial 0xA001), sent low byte first.                                *)
(***************************************************************************)
\* A round that never applies the polynomial.
CalcCrcRoundNoXor(crc) == crc \div 2

CalcCrcRound(crc) ==
    IF crc % 2 = 1 THEN Xor(crc \div 2, 40961) ELSE crc \div 2

CalcCrcByte(crc, byte) ==
    LET r0 == Xor(crc, byte)
        r1 == CalcCrcRound(r0)
        r2 == CalcCrcRound(r1)
        r3 == CalcCrcRound(r2)
        r4 == CalcCrcRound(r3)
        r5 == CalcCrcRound(r4)
        r6 == CalcCrcRound(r5)
        r7 == CalcCrcRound(r6)
    IN  CalcCrcRound(r7)

\* The for loop over message_bytes[lo..hi], folded left to right as in
\* Crc16Range.
RECURSIVE CalcCrcRange(_, _, _, _)
CalcCrcRange(crc, data, lo, hi) ==
    IF lo > hi THEN crc
    ELSE IF lo = hi THEN CalcCrcByte(crc, data[lo])
    ELSE LET mid == (lo + hi) \div 2
             left == CalcCrcRange(crc, data, lo, mid)
         IN  IF left >= 0 THEN CalcCrcRange(left, data, mid + 1, hi) ELSE left

calc_crc(message_bytes) == CalcCrcRange(65535, message_bytes, 1, Len(message_bytes))

\* A Modbus RTU frame ends with calc_crc of what precedes it, low byte first.
ModbusCrcOk(buf) ==
    /\ Len(buf) >= 3
    /\ LET body == SubSeq(buf, 1, Len(buf) - 2)
       IN  /\ buf[Len(buf) - 1] = calc_crc(body) % 256
           /\ buf[Len(buf)] = calc_crc(body) \div 256

(***************************************************************************)
(* What the transducer may put in the 50 ms read window after a request.   *)
(***************************************************************************)
ModbusValues == {0, 10000}

WithCrc(body) == body \o <<calc_crc(body) % 256, calc_crc(body) \div 256>>

GoodResponse(v) == WithCrc(<<1, 3, 4, 0, 0, v \div 256, v % 256>>)

\* The same response with its low CRC byte damaged on the line.
BadCrcResponse(v) ==
    [GoodResponse(v) EXCEPT ![8] = (GoodResponse(v)[8] + 1) % 256]

\* The response cut one byte short of 9 bytes.
ShortResponse(v) == SubSeq(GoodResponse(v), 1, 8)

\* A response whose byte-count field is 2, padded to 9 bytes by a second frame.
BadCountResponse(v) == WithCrc(<<1, 3, 2, v \div 256, v % 256>>) \o <<1, 3>>

ModbusResponses ==
    {GoodResponse(v) : v \in ModbusValues}
      \cup {BadCrcResponse(v) : v \in ModbusValues}
      \cup {ShortResponse(10000), BadCountResponse(10000), <<>>}

\* The outcome of the write and the read window: the bytes read, or an
\* exception raised by the serial port.
ModbusIo == ModbusResponses \cup {<<"exception">>}

\* A parsed value v is <<v>>; None is the empty tuple.
None == <<>>

(***************************************************************************)
(* CombinedLoggerApp.send_modbus_frame: the value parsed from the bytes    *)
(* read, or None.                                                          *)
(***************************************************************************)
\* A parse that omits the byte-count test.
ParseResponseNoByteCount(response_buffer) ==
    IF Len(response_buffer) >= 9
    THEN <<response_buffer[6] * 256 + response_buffer[7]>>
    ELSE None

ParseResponse(response_buffer) ==
    IF response_buffer = <<>> THEN None
    ELSE IF Len(response_buffer) >= 9
         THEN IF response_buffer[3] = 4
              THEN <<response_buffer[6] * 256 + response_buffer[7]>>
              ELSE None
         ELSE None

\* torque_nm and speed_rpm of update_modbus_readings: the value read, or
\* None.
Reading16(val) == IF val # None THEN val[1] ELSE "None"

send_modbus_frame(port, io) ==
    IF port # "Open" THEN None
    ELSE IF io = <<"exception">> THEN None
    ELSE ParseResponse(io)

\* update_modbus_readings: the row appended when both readings are valid.
\* torque is in 1/100 Nm and speed in 1/10 RPM; tframe and sframe are the
\* buffers the two values were parsed from.
ModbusRow(port, tio, sio) ==
    [torque |-> Reading16(send_modbus_frame(port, tio)),
     speed  |-> Reading16(send_modbus_frame(port, sio)),
     tframe |-> tio,
     sframe |-> sio]

\* A test that looks at the torque reading only.
TorqueValid(port, tio, sio) == send_modbus_frame(port, tio) # None

\* `if torque_nm is not None and speed_rpm is not None:`
BothValid(port, tio, sio) ==
    /\ send_modbus_frame(port, tio) # None
    /\ send_modbus_frame(port, sio) # None

\* schedule_modbus_update line 324: the next tick is scheduled whatever the
\* readings were.
RescheduleOnlyOnSuccess(port, tio, sio) ==
    IF BothValid(port, tio, sio) THEN "Pending" ELSE "None"

Reschedule(port, tio, sio) == "Pending"

\* update_modbus_readings followed by the after() of schedule_modbus_update,
\* applied to the log `log` with the port `port`.
ModbusUpdate(port, log, series, tio, sio) ==
    /\ Len(log) < MaxModbusLog \/ ~BothValid(port, tio, sio)
    /\ modbus_log_data' =
         IF BothValid(port, tio, sio)
         THEN Append(log, ModbusRow(port, tio, sio))
         ELSE log
    /\ modbus_series' =
         IF BothValid(port, tio, sio)
         THEN [time |-> Append(series.time, "t"),
               torque |-> Append(series.torque, ModbusRow(port, tio, sio).torque),
               speed |-> Append(series.speed, ModbusRow(port, tio, sio).speed)]
         ELSE series
    /\ modbus_last_tick' =
         IF BothValid(port, tio, sio) THEN "logged" ELSE "failed"
    /\ modbus_fail_streak' =
         IF BothValid(port, tio, sio) THEN 0
         ELSE IF modbus_fail_streak < MaxFailStreak
              THEN modbus_fail_streak + 1 ELSE modbus_fail_streak
    /\ modbus_job_id' = Reschedule(port, tio, sio)

\* start_modbus_logging: the port is opened if needed, the data are cleared
\* and schedule_modbus_update runs its first tick at once.
StartModbusLogging ==
    /\ app = "AllInOne"
    /\ ~logging_modbus
    /\ \E opened \in BOOLEAN :
         IF ser # "Open" /\ ~opened
         THEN /\ ser' = "None"
              /\ UNCHANGED <<logging_modbus, modbus_job_id, modbus_log_data,
                             modbus_last_tick, modbus_fail_streak,
                             modbus_series>>
         ELSE /\ ser' = "Open"
              /\ logging_modbus' = TRUE
              /\ \E tio \in ModbusIo, sio \in ModbusIo :
                    ModbusUpdate("Open", <<>>, EmptySeries, tio, sio)
    /\ UNCHANGED notModbus

\* stop_modbus_logging.
StopModbusLogging ==
    /\ app = "AllInOne"
    /\ logging_modbus
    /\ logging_modbus' = FALSE
    /\ modbus_job_id' = "None"
    /\ modbus_last_tick' = "none"
    /\ modbus_fail_streak' = 0
    /\ UNCHANGED <<ser, modbus_log_data, modbus_series>>
    /\ UNCHANGED notModbus

\* The after() timer fires: schedule_modbus_update.
ModbusTimer ==
    /\ app = "AllInOne"
    /\ modbus_job_id = "Pending"
    /\ IF ~logging_modbus
       THEN UNCHANGED modbusVars
       ELSE /\ \E tio \in ModbusIo, sio \in ModbusIo :
                 ModbusUpdate(ser, modbus_log_data, modbus_series, tio, sio)
            /\ UNCHANGED <<ser, logging_modbus>>
    /\ UNCHANGED notModbus

ModbusNext == StartModbusLogging \/ StopModbusLogging \/ ModbusTimer

(***************************************************************************)
(* CombinedLoggerApp, CAN bus.  The handlers run on the Tk main thread;    *)
(* each start_can_logging creates one read_can_data thread and one         *)
(* send_keep_alive thread, which run step by step between the handlers.    *)
(***************************************************************************)
\* A shift by four bits in place of eight.
GetCanIdShift4(command_id, vesc_id) == BitOr(command_id * 16, vesc_id)

\* (command_id << 8) | vesc_id
get_can_id(command_id, vesc_id) == BitOr(command_id * 256, vesc_id)

VESC_ID == 1

CAN_ID_STATUS == get_can_id(9, VESC_ID)

CAN_ID_STATUS_5 == get_can_id(27, VESC_ID)

\* Frames the adapter may deliver to can_device.read.
CanFrame(ext, echo, id, data) ==
    [kind |-> "frame", is_extended |-> ext, echo_none |-> echo,
     err |-> FALSE, can_id |-> id, data |-> data]

CanFrames ==
    { CanFrame(TRUE, TRUE, CAN_ID_STATUS, <<0, 0, 3, 232, 0, 100, 0, 0>>),
      CanFrame(TRUE, TRUE, CAN_ID_STATUS_5, <<0, 0, 0, 0, 0, 240, 0, 0>>),
      CanFrame(TRUE, TRUE, CAN_ID_STATUS, <<0, 0, 3, 232>>),
      CanFrame(FALSE, TRUE, CAN_ID_STATUS, <<0, 0, 3, 232, 0, 100, 0, 0>>) }

\* struct.unpack of big-endian fields of frame.data (1-based positions).
U16(d, i) == d[i] * 256 + d[i + 1]

\* The same two bytes read without a sign.
S16Unsigned(d, i) == d[i] * 256 + d[i + 1]

S16(d, i) == IF U16(d, i) >= 32768 THEN U16(d, i) - 65536 ELSE U16(d, i)

U32(d, i) == U16(d, i) * 65536 + U16(d, i + 2)

\* The acceptance test of read_can_data.
Accepted(f) == f.is_extended /\ f.echo_none /\ ~f.err

IsStatus(f) == Accepted(f) /\ f.can_id = CAN_ID_STATUS /\ Len(f.data) >= 8

IsStatus5(f) == Accepted(f) /\ f.can_id = CAN_ID_STATUS_5 /\ Len(f.data) >= 6

Last(q) == q[Len(q)]

\* The rows appended under can_lock.  current and voltage are in tenths.
StatusRow(f) ==
    [current |-> S16(f.data, 5),
     voltage |-> IF can_plot_data.voltage # <<>>
                 THEN Last(can_plot_data.voltage) ELSE 0,
     rpm |-> <<"int", U32(f.data, 1)>>,
     timestamp |-> f.timestamp]

Status5Row(f) ==
    [current |-> IF can_plot_data.current # <<>>
                 THEN Last(can_plot_data.current) ELSE 0,
     voltage |-> U16(f.data, 5),
     rpm |-> <<"str", can_rpm_label>>,
     timestamp |-> f.timestamp]

Truthy(device) == device = "Dev"

\* The while condition of read_can_data and of send_keep_alive.
LoopCondition == can_logging /\ can_active /\ Truthy(can_device)

\* What self.can_device.read(frame, 0.01) may do: raise (AttributeError on
\* None, or the adapter's error), time out, or deliver a frame.
ReadOutcomes ==
    IF ~Truthy(can_device) THEN {[kind |-> "raise"]}
    ELSE IF dev_fault \/ ~dev_started
         THEN {[kind |-> "raise"], [kind |-> "timeout"]}
         ELSE {[kind |-> "timeout"]} \cup CanFrames

\* What self.can_device.send(frame) may do.
SendOutcomes ==
    IF ~Truthy(can_device) \/ dev_fault \/ ~dev_started
    THEN {"raise"} ELSE {"sent"}

Bump(n, max) == IF n < max THEN n + 1 ELSE n

\* Rows that threads past their read are about to append.
PendingRows == Cardinality({t \in CanThreads : reader_pc[t] = "log"})

\* connect_can.
ConnectCan ==
    /\ app = "AllInOne"
    /\ ~can_active
    /\ \E outcome \in {"nodevice", "refused", "start_raises", "ok"} :
         /\ can_device' = CASE outcome = "nodevice" -> "EmptyList"
                            [] outcome = "refused" -> "None"
                            [] OTHER -> "Dev"
         /\ dev_started' = (outcome = "ok")
         /\ dev_fault' = FALSE
         /\ can_active' = (outcome = "ok")
         /\ can_errors' = 0
    /\ UNCHANGED <<can_logging, can_log_data, can_plot_data, can_lock,
                   can_threads, reader_pc, reader_frame, sender_pc,
                   can_rpm_label>>
    /\ UNCHANGED can_elapsed
    /\ UNCHANGED notCan

\* disconnect_can: the flags are cleared, the device is stopped and the
\* handle is dropped; no thread is joined.
DisconnectCan ==
    /\ app = "AllInOne"
    /\ can_active
    /\ can_active' = FALSE
    /\ can_logging' = FALSE
    /\ dev_started' = IF Truthy(can_device) THEN FALSE ELSE dev_started
    /\ can_device' = "None"
    /\ UNCHANGED <<dev_fault, can_log_data, can_plot_data, can_lock,
                   can_threads, reader_pc, reader_frame, sender_pc,
                   can_errors, can_rpm_label>>
    /\ UNCHANGED can_elapsed
    /\ UNCHANGED notCan

StartGuardNoActive == ~can_logging

\* The two early returns of start_can_logging.
StartGuard == can_active /\ ~can_logging

\* start_can_logging: the log and the plot series are replaced (can_lock is
\* not taken) and the two threads are started.
StartCanLogging ==
    /\ app = "AllInOne"
    /\ StartGuard
    /\ can_threads < MaxCanStarts
    /\ can_logging' = TRUE
    /\ can_log_data' = <<>>
    /\ can_plot_data' = EmptyPlot
    /\ can_elapsed' = 0
    /\ can_threads' = can_threads + 1
    /\ reader_pc' = [reader_pc EXCEPT ![can_threads + 1] = "check"]
    /\ sender_pc' = [sender_pc EXCEPT ![can_threads + 1] = "check"]
    /\ UNCHANGED <<can_device, dev_started, dev_fault, can_active, can_lock,
                   reader_frame, can_errors, can_rpm_label>>
    /\ UNCHANGED notCan

\* stop_can_logging, called from the Stop button.
StopCanLogging ==
    /\ app = "AllInOne"
    /\ can_logging
    /\ can_logging' = FALSE
    /\ UNCHANGED <<can_device, dev_started, dev_fault, can_active,
                   can_log_data, can_plot_data, can_lock, can_threads,
                   reader_pc, reader_frame, sender_pc, can_errors,
                   can_rpm_label>>
    /\ UNCHANGED can_elapsed
    /\ UNCHANGED notCan

\* The adapter is unplugged (or its USB transfers start failing).
CanFault ==
    /\ app = "AllInOne"
    /\ can_active
    /\ Truthy(can_device)
    /\ ~dev_fault
    /\ dev_fault' = TRUE
    /\ UNCHANGED <<can_device, dev_started, can_active, can_logging,
                   can_log_data, can_plot_data, can_lock, can_threads,
                   reader_pc, reader_frame, sender_pc, can_errors,
                   can_rpm_label>>
    /\ UNCHANGED can_elapsed
    /\ UNCHANGED notCan

\* read_can_data: the while condition.
ReaderCheck(t) ==
    /\ app = "AllInOne"
    /\ reader_pc[t] = "check"
    /\ reader_pc' = [reader_pc EXCEPT ![t] =
                        IF LoopCondition THEN "read" ELSE "done"]
    /\ UNCHANGED <<can_device, dev_started, dev_fault, can_active,
                   can_logging, can_log_data, can_plot_data, can_lock,
                   can_threads, reader_frame, sender_pc, can_errors,
                   can_rpm_label>>
    /\ UNCHANGED can_elapsed
    /\ UNCHANGED notCan

\* read_can_data: self.can_device.read and the decoding up to the `with
\* self.can_lock`; the except clause surfaces the error and calls
\* stop_can_logging.
ReaderRead(t) ==
    /\ app = "AllInOne"
    /\ reader_pc[t] = "read"
    /\ \E f \in ReadOutcomes :
         /\ (f.kind = "frame" /\ (IsStatus(f) \/ IsStatus5(f)))
               => Len(can_log_data) + PendingRows < MaxCanLog
         /\ reader_pc' = [reader_pc EXCEPT ![t] =
               CASE f.kind = "raise" -> "done"
                 [] f.kind = "timeout" -> "plot"
                 [] OTHER -> IF IsStatus(f) \/ IsStatus5(f)
                             THEN "log" ELSE "plot"]
         /\ reader_frame' = [reader_frame EXCEPT ![t] =
               IF f.kind = "frame" /\ (IsStatus(f) \/ IsStatus5(f))
               THEN Stamped(f) ELSE NoFrame]
         /\ can_elapsed' =
               IF f.kind = "frame" /\ (IsStatus(f) \/ IsStatus5(f))
               THEN can_elapsed + 1 ELSE can_elapsed
         /\ can_rpm_label' =
               IF f.kind = "frame" /\ IsStatus(f)
               THEN U32(f.data, 1) ELSE can_rpm_label
         /\ can_errors' =
               IF f.kind = "raise" THEN Bump(can_errors, MaxCanErrors)
               ELSE can_errors
         /\ can_logging' = IF f.kind = "raise" THEN FALSE ELSE can_logging
    /\ UNCHANGED <<can_device, dev_started, dev_fault, can_active,
                   can_log_data, can_plot_data, can_lock, can_threads,
                   sender_pc>>
    /\ UNCHANGED notCan

\* read_can_data: can_lock is acquired and the row is appended to
\* can_log_data.
ReaderLog(t) ==
    /\ app = "AllInOne"
    /\ reader_pc[t] = "log"
    /\ can_lock = 0
    /\ can_lock' = t
    /\ can_log_data' = Append(can_log_data,
                              IF IsStatus(reader_frame[t])
                              THEN StatusRow(reader_frame[t])
                              ELSE Status5Row(reader_frame[t]))
    /\ reader_pc' = [reader_pc EXCEPT ![t] = "series"]
    /\ UNCHANGED <<can_device, dev_started, dev_fault, can_active,
                   can_logging, can_plot_data, can_threads, reader_frame,
                   sender_pc, can_errors, can_rpm_label>>
    /\ UNCHANGED can_elapsed
    /\ UNCHANGED notCan

\* read_can_data: the plot series are appended and can_lock is released.
ReaderSeries(t) ==
    /\ app = "AllInOne"
    /\ reader_pc[t] = "series"
    /\ can_lock = t
    /\ can_plot_data' =
         IF IsStatus(reader_frame[t])
         THEN [can_plot_data EXCEPT
                 !.time = Append(@, "t"),
                 !.current = Append(@, S16(reader_frame[t].data, 5))]
         ELSE [can_plot_data EXCEPT
                 !.time = Append(@, "t"),
                 !.voltage = Append(@, U16(reader_frame[t].data, 5))]
    /\ can_lock' = 0
    /\ reader_frame' = [reader_frame EXCEPT ![t] = NoFrame]
    /\ reader_pc' = [reader_pc EXCEPT ![t] = "plot"]
    /\ UNCHANGED <<can_device, dev_started, dev_fault, can_active,
                   can_logging, can_log_data, can_threads, sender_pc,
                   can_errors, can_rpm_label>>
    /\ UNCHANGED can_elapsed
    /\ UNCHANGED notCan

\* read_can_data: update_can_plot takes can_lock to read the series.
ReaderPlot(t) ==
    /\ app = "AllInOne"
    /\ reader_pc[t] = "plot"
    /\ can_lock = 0
    /\ reader_pc' = [reader_pc EXCEPT ![t] = "check"]
    /\ UNCHANGED <<can_device, dev_started, dev_fault, can_active,
                   can_logging, can_log_data, can_plot_data, can_lock,
                   can_threads, reader_frame, sender_pc, can_errors,
                   can_rpm_label>>
    /\ UNCHANGED can_elapsed
    /\ UNCHANGED notCan

\* send_keep_alive: the while condition.
SenderCheck(t) ==
    /\ app = "AllInOne"
    /\ sender_pc[t] = "check"
    /\ sender_pc' = [sender_pc EXCEPT ![t] =
                        IF LoopCondition THEN "send" ELSE "done"]
    /\ UNCHANGED <<can_device, dev_started, dev_fault, can_active,
                   can_logging, can_log_data, can_plot_data, can_lock,
                   can_threads, reader_pc, reader_frame, can_errors,
                   can_rpm_label>>
    /\ UNCHANGED can_elapsed
    /\ UNCHANGED notCan

\* send_keep_alive: self.can_device.send(frame) and the 20 ms sleep; the
\* except clause surfaces the error and calls stop_can_logging.
SenderSend(t) ==
    /\ app = "AllInOne"
    /\ sender_pc[t] = "send"
    /\ \E o \in SendOutcomes :
         /\ sender_pc' = [sender_pc EXCEPT ![t] =
                             IF o = "raise" THEN "done" ELSE "check"]
         /\ can_errors' =
               IF o = "raise" THEN Bump(can_errors, MaxCanErrors)
               ELSE can_errors
         /\ can_logging' = IF o = "raise" THEN FALSE ELSE can_logging
    /\ UNCHANGED <<can_device, dev_started, dev_fault, can_active,
                   can_log_data, can_plot_data, can_lock, can_threads,
                   reader_pc, reader_frame, can_rpm_label>>
    /\ UNCHANGED can_elapsed
    /\ UNCHANGED notCan

CanNext ==
    \/ ConnectCan
    \/ DisconnectCan
    \/ StartCanLogging
    \/ StopCanLogging
    \/ CanFault
    \/ \E t \in CanThreads :
         \/ ReaderCheck(t)
         \/ ReaderRead(t)
         \/ ReaderLog(t)
         \/ ReaderSeries(t)
         \/ ReaderPlot(t)
         \/ SenderCheck(t)
         \/ SenderSend(t)

(***************************************************************************)
(*                        VescGUI (USB-VESC.py)                            *)
(***************************************************************************)
COMM_GET_VALUES == 4

Zeros(n) == [i \in 1..n |-> 0]

(***************************************************************************)
(* VescUart._receive_uart_message over everything the line delivers before *)
(* the timeout: the loop returns at the first byte at which the frame test *)
(* decides, and returns (False, b'') when it never does.                   *)
(***************************************************************************)
ReceiveUartMessage(stream) ==
    LET decided == {n \in 1..Len(stream) :
                      RecvTest(SubSeq(stream, 1, n)) # "more"}
    IN  IF decided = {} THEN NoResult
        ELSE LET n == CHOOSE k \in decided : \A j \in decided : k <= j
                 m == SubSeq(stream, 1, n)
             IN  IF RecvTest(m) = "true"
                 THEN [success |-> TRUE, message |-> RecvPayload(m)]
                 ELSE NoResult

\* A COMM_GET_VALUES reply of 56 bytes: the float's bits at payload offset 4,
\* the voltage (tenths) at payload offset 26.
ValuesMessage(id, bits, volts) ==
    <<id>> \o Zeros(4)
      \o <<bits \div 16777216, (bits \div 65536) % 256,
           (bits \div 256) % 256, bits % 256>>
      \o Zeros(18) \o <<volts \div 256, volts % 256>> \o Zeros(27)

\* IEEE-754 bits of 150.0 (1.5 A after the division by 100); 48.0 V in tenths.
SampleBits == 1125515264

SampleVolts == 480

GoodReply == pack_payload(ValuesMessage(COMM_GET_VALUES, SampleBits, SampleVolts))

\* What the line can deliver in answer to one request.
VescReplies ==
    { GoodReply,
      [GoodReply EXCEPT ![10] = 1],                    \* a byte changed in transit
      SubSeq(GoodReply, 1, 30),                        \* cut short
      <<>>,                                            \* silence
      pack_payload(<<COMM_GET_VALUES, 0, 0>>),         \* valid frame, too short
      pack_payload(ValuesMessage(0, SampleBits, SampleVolts)) }  \* other packet

\* What _receive_uart_message returns for each of them.
VescReceived == {ReceiveUartMessage(stream) : stream \in VescReplies}

VescData == [avg_motor_current |-> 0, input_voltage |-> 0]

\* VescUart._process_read_packet; avg_motor_current is kept as the bits of
\* the float that the code divides by 100.
process_read_packet(data, message) ==
    IF message[1] = COMM_GET_VALUES
    THEN [avg_motor_current |-> U32(message, 6),
          input_voltage |-> S16(message, 28)]
    ELSE data

\* The test get_values makes on what _receive_uart_message returned.
GetValuesOk(r) == r.success /\ Len(r.message) > 55

VescThreads == 1..MaxVescStarts

VescInit ==
    /\ vesc = 0
    /\ vesc_data = VescData
    /\ logging_running = FALSE
    /\ vesc_log_data = <<>>
    /\ vesc_threads = 0
    /\ poll_pc = [t \in VescThreads |-> "none"]
    /\ poll_obj = [t \in VescThreads |-> 0]
    /\ vesc_fail_streak = 0

\* VescGUI.start_logging; the start button is enabled while not running.
VescStartLogging ==
    /\ app = "USB-VESC"
    /\ ~logging_running
    /\ vesc_threads < MaxVescStarts
    /\ \E opened \in BOOLEAN :
         IF opened
         THEN /\ vesc' = vesc_threads + 1
              /\ vesc_data' = VescData
              /\ logging_running' = TRUE
              /\ vesc_log_data' = <<>>
              /\ vesc_threads' = vesc_threads + 1
              /\ poll_pc' = [poll_pc EXCEPT ![vesc_threads + 1] = "check"]
              /\ UNCHANGED <<poll_obj, vesc_fail_streak>>
         ELSE UNCHANGED vescVars
    /\ UNCHANGED notVesc

\* VescGUI.stop_logging; the stop button is enabled while running.
VescStopLogging ==
    /\ app = "USB-VESC"
    /\ logging_running
    /\ logging_running' = FALSE
    /\ vesc' = 0
    /\ vesc_fail_streak' = 0
    /\ UNCHANGED <<vesc_data, vesc_log_data, vesc_threads, poll_pc, poll_obj>>
    /\ UNCHANGED notVesc

\* poll_data: the while test.
PollCheck(t) ==
    /\ app = "USB-VESC"
    /\ poll_pc[t] = "check"
    /\ poll_pc' = [poll_pc EXCEPT ![t] = IF logging_running THEN "call" ELSE "done"]
    /\ UNCHANGED <<vesc, vesc_data, logging_running, vesc_log_data,
                   vesc_threads, poll_obj, vesc_fail_streak>>
    /\ UNCHANGED notVesc

\* poll_data: `self.vesc and self.vesc.get_values()` up to the request
\* written by get_values.
PollCall(t) ==
    /\ app = "USB-VESC"
    /\ poll_pc[t] = "call"
    /\ IF vesc = 0
       THEN /\ poll_pc' = [poll_pc EXCEPT ![t] = "check"]
            /\ UNCHANGED poll_obj
       ELSE /\ poll_pc' = [poll_pc EXCEPT ![t] = "recv"]
            /\ poll_obj' = [poll_obj EXCEPT ![t] = vesc]
    /\ UNCHANGED <<vesc, vesc_data, logging_running, vesc_log_data,
                   vesc_threads, vesc_fail_streak>>
    /\ UNCHANGED notVesc

\* get_values from _receive_uart_message on.  A port closed by stop_logging
\* raises in the thread, which has no handler.
PollRecv(t) ==
    /\ app = "USB-VESC"
    /\ poll_pc[t] = "recv"
    /\ IF poll_obj[t] # vesc
       THEN /\ poll_pc' = [poll_pc EXCEPT ![t] = "dead"]
            /\ UNCHANGED <<vesc_data, vesc_fail_streak>>
       ELSE \E r \in VescReceived :
              IF GetValuesOk(r)
              THEN /\ vesc_data' = process_read_packet(vesc_data, r.message)
                   /\ vesc_fail_streak' = 0
                   /\ poll_pc' = [poll_pc EXCEPT ![t] = "append"]
              ELSE /\ vesc_fail_streak' = Bump(vesc_fail_streak, MaxFailStreak)
                   /\ poll_pc' = [poll_pc EXCEPT ![t] = "check"]
                   /\ UNCHANGED vesc_data
    /\ UNCHANGED <<vesc, logging_running, vesc_log_data, vesc_threads, poll_obj>>
    /\ UNCHANGED notVesc

\* poll_data: the row read from self.vesc.data and appended, then the sleep.
PollAppend(t) ==
    /\ app = "USB-VESC"
    /\ poll_pc[t] = "append"
    /\ IF vesc = 0
       THEN /\ poll_pc' = [poll_pc EXCEPT ![t] = "dead"]
            /\ UNCHANGED vesc_log_data
       ELSE /\ poll_pc' = [poll_pc EXCEPT ![t] = "check"]
            /\ vesc_log_data' =
                 IF Len(vesc_log_data) < MaxVescLog
                 THEN Append(vesc_log_data,
                             [current |-> vesc_data.avg_motor_current,
                              voltage |-> vesc_data.input_voltage])
                 ELSE vesc_log_data
    /\ UNCHANGED <<vesc, vesc_data, logging_running, vesc_threads, poll_obj,
                   vesc_fail_streak>>
    /\ UNCHANGED notVesc

VescNext ==
    \/ VescStartLogging
    \/ VescStopLogging
    \/ \E t \in VescThreads :
         \/ PollCheck(t)
         \/ PollCall(t)
         \/ PollRecv(t)
         \/ PollAppend(t)

(***************************************************************************)
(*          ModbusActiveApp (BareBonesDynoDisplay.py)                      *)
(* Everything runs on the Tk main thread: the Connect handler and the      *)
(* after() timers are dispatched one at a time, and send_raw_frame blocks  *)
(* the thread for its 50 ms read window.                                   *)
(***************************************************************************)
\* struct.unpack('>h', ...) or struct.unpack('>H', ...) of data_bytes[2:4].
Unpack16(buf, signed) == IF signed THEN S16(buf, 6) ELSE U16(buf, 6)

\* send_raw_frame: the value parsed from the bytes read, or None.
ParseRaw(response_buffer, signed) ==
    IF response_buffer = <<>> THEN None
    ELSE IF Len(response_buffer) >= 9
         THEN IF response_buffer[3] = 4
              THEN <<Unpack16(response_buffer, signed)>>
              ELSE None
         ELSE None

send_raw_frame(io, signed) ==
    IF io = <<"exception">> THEN None ELSE ParseRaw(io, signed)

\* Raw values the transducer may answer with: 0, 100 Nm, the 150 Nm ceiling,
\* just above it, and -0.01 Nm.
RawValues == {0, 10000, 15000, 15001, 65535}

RawIo ==
    {GoodResponse(v) : v \in RawValues}
      \cup {ShortResponse(10000), BadCountResponse(10000), <<>>,
            <<"exception">>}

\* The hard ceiling of update_readings, 150.0 Nm, in 1/100 Nm.
TorqueCeiling == 15000

\* update_readings: the torque published for a parsed value.
AdjustTorque(torque) == IF torque < 0 THEN torque + 5 ELSE torque

\* update_readings: the text of torque_label after a torque reading.
TorqueLabel(label, torque_val) ==
    IF torque_val = None THEN label
    ELSE IF torque_val[1] > TorqueCeiling THEN <<>>
    ELSE <<AdjustTorque(torque_val[1])>>

BareInit ==
    /\ bb_ser = "None"
    /\ bb_timers = 0
    /\ bb_pc = "idle"
    /\ bb_outstanding = 0
    /\ bb_torque_label = <<>>
    /\ bb_speed_label = <<>>

TkAlways == TRUE

\* Tk dispatches a handler or an after() callback only when the main thread
\* has returned to the event loop.
TkIdle == bb_pc = "idle"

\* update_readings up to the ser.write of the torque request; when the port is
\* not open it returns at once and schedule_update re-arms the timer.
BareBegin(port, timers) ==
    IF port = "Open"
    THEN /\ bb_pc' = "torque"
         /\ bb_outstanding' = bb_outstanding + 1
         /\ bb_timers' = timers
    ELSE /\ bb_pc' = bb_pc
         /\ bb_outstanding' = bb_outstanding
         /\ bb_timers' = timers + 1

\* connect_serial: the old port is closed, the new one opened and
\* schedule_update called.
BareConnect ==
    /\ app = "BareBones"
    /\ TkIdle
    /\ bb_timers < MaxBareTimers
    /\ \E opened \in BOOLEAN :
         IF opened
         THEN /\ bb_ser' = "Open"
              /\ BareBegin("Open", bb_timers)
         ELSE /\ bb_ser' = "None"
              /\ UNCHANGED <<bb_timers, bb_pc, bb_outstanding>>
    /\ UNCHANGED <<bb_torque_label, bb_speed_label>>
    /\ UNCHANGED notBare

\* An after() timer fires: schedule_update.
BareTimer ==
    /\ app = "BareBones"
    /\ TkIdle
    /\ bb_timers > 0
    /\ BareBegin(bb_ser, bb_timers - 1)
    /\ UNCHANGED <<bb_ser, bb_torque_label, bb_speed_label>>
    /\ UNCHANGED notBare

\* send_raw_frame for torque: the read window ends, the response is parsed
\* and update_readings sets the torque label.
BareTorqueDone ==
    /\ app = "BareBones"
    /\ bb_pc = "torque"
    /\ \E io \in RawIo :
         bb_torque_label' = TorqueLabel(bb_torque_label, send_raw_frame(io, TRUE))
    /\ bb_outstanding' = bb_outstanding - 1
    /\ bb_pc' = "speed_write"
    /\ UNCHANGED <<bb_ser, bb_timers, bb_speed_label>>
    /\ UNCHANGED notBare

\* send_raw_frame for speed: the request is written.
BareSpeedWrite ==
    /\ app = "BareBones"
    /\ bb_pc = "speed_write"
    /\ bb_outstanding' = bb_outstanding + 1
    /\ bb_pc' = "speed"
    /\ UNCHANGED <<bb_ser, bb_timers, bb_torque_label, bb_speed_label>>
    /\ UNCHANGED notBare

\* send_raw_frame for speed: the read window ends; update_readings sets the
\* speed label and schedule_update arms the next timer.
BareSpeedDone ==
    /\ app = "BareBones"
    /\ bb_pc = "speed"
    /\ \E io \in RawIo :
         bb_speed_label' =
            IF send_raw_frame(io, FALSE) = None THEN bb_speed_label
            ELSE send_raw_frame(io, FALSE)
    /\ bb_outstanding' = bb_outstanding - 1
    /\ bb_pc' = "idle"
    /\ bb_timers' = bb_timers + 1
    /\ UNCHANGED <<bb_ser, bb_torque_label>>
    /\ UNCHANGED notBare

BareNext ==
    \/ BareConnect
    \/ BareTimer
    \/ BareTorqueDone
    \/ BareSpeedWrite
    \/ BareSpeedDone

(***************************************************************************)
(*          ModbusActiveApp (LoggerV2/logs/wattageLogger.py)               *)
(* The poller of BareBonesDynoDisplay with a third reading (watts), the    *)
(* last values kept in last_torque, last_speed and last_watts, and a       *)
(* logger that records them on its own timer.                              *)
(***************************************************************************)
WattTorqueIo ==
    {GoodResponse(10000), GoodResponse(15001), GoodResponse(65535), <<>>}

WattSpeedIo == {GoodResponse(10000), ShortResponse(10000)}

WattWattsIo == {GoodResponse(0), <<"exception">>}

WattInit ==
    /\ wl_ser = "None"
    /\ wl_timers = 0
    /\ wl_last_torque = None
    /\ wl_last_speed = None
    /\ wl_last_watts = None
    /\ wl_torque_label = <<>>
    /\ wl_logging_active = FALSE
    /\ wl_logged_data = <<>>
    /\ wl_log_timers = 0

\* update_readings: torque_nm, the local that line 220 stores in last_torque.
\* A reading above the ceiling is not set to None.
WattTorqueNm(torque_val) ==
    IF torque_val = None THEN None
    ELSE IF torque_val[1] > TorqueCeiling THEN torque_val
    ELSE <<AdjustTorque(torque_val[1])>>

KeepLast(last, reading) == IF reading # None THEN reading ELSE last

\* update_readings with the port `port`.
WattUpdate(port, tio, sio, wio) ==
    IF port # "Open"
    THEN UNCHANGED <<wl_last_torque, wl_last_speed, wl_last_watts,
                     wl_torque_label>>
    ELSE /\ wl_torque_label' =
               TorqueLabel(wl_torque_label, send_raw_frame(tio, TRUE))
         /\ wl_last_torque' =
               KeepLast(wl_last_torque, WattTorqueNm(send_raw_frame(tio, TRUE)))
         /\ wl_last_speed' = KeepLast(wl_last_speed, send_raw_frame(sio, FALSE))
         /\ wl_last_watts' = KeepLast(wl_last_watts, send_raw_frame(wio, FALSE))

\* connect_serial followed by the first schedule_update.
WattConnect ==
    /\ app = "wattageLogger"
    /\ wl_timers < MaxWattTimers
    /\ \E opened \in BOOLEAN :
         IF opened
         THEN /\ wl_ser' = "Open"
              /\ wl_timers' = wl_timers + 1
              /\ \E tio \in WattTorqueIo, sio \in WattSpeedIo, wio \in WattWattsIo :
                    WattUpdate("Open", tio, sio, wio)
         ELSE /\ wl_ser' = "None"
              /\ UNCHANGED <<wl_timers, wl_last_torque, wl_last_speed,
                             wl_last_watts, wl_torque_label>>
    /\ UNCHANGED <<wl_logging_active, wl_logged_data, wl_log_timers>>
    /\ UNCHANGED notWatt

\* An after() timer fires: schedule_update.
WattTimer ==
    /\ app = "wattageLogger"
    /\ wl_timers > 0
    /\ \E tio \in WattTorqueIo, sio \in WattSpeedIo, wio \in WattWattsIo :
          WattUpdate(wl_ser, tio, sio, wio)
    /\ UNCHANGED <<wl_ser, wl_timers, wl_logging_active, wl_logged_data,
                   wl_log_timers>>
    /\ UNCHANGED notWatt

\* update_logging: the row appended; "" is the empty tuple.
WattRow ==
    [torque |-> wl_last_torque, speed |-> wl_last_speed, watts |-> wl_last_watts]

\* start_logging followed by the first update_logging.
WattStartLogging ==
    /\ app = "wattageLogger"
    /\ wl_log_timers < MaxWattLogTimers
    /\ wl_logging_active' = TRUE
    /\ wl_logged_data' = <<WattRow>>
    /\ wl_log_timers' = wl_log_timers + 1
    /\ UNCHANGED <<wl_ser, wl_timers, wl_last_torque, wl_last_speed,
                   wl_last_watts, wl_torque_label>>
    /\ UNCHANGED notWatt

\* stop_logging.
WattStopLogging ==
    /\ app = "wattageLogger"
    /\ wl_logging_active
    /\ wl_logging_active' = FALSE
    /\ UNCHANGED <<wl_ser, wl_timers, wl_last_torque, wl_last_speed,
                   wl_last_watts, wl_torque_label, wl_logged_data,
                   wl_log_timers>>
    /\ UNCHANGED notWatt

\* An after() timer fires: update_logging.
WattLogTimer ==
    /\ app = "wattageLogger"
    /\ wl_log_timers > 0
    /\ IF ~wl_logging_active
       THEN /\ wl_log_timers' = wl_log_timers - 1
            /\ UNCHANGED wl_logged_data
       ELSE /\ Len(wl_logged_data) < MaxWattLog
            /\ wl_logged_data' = Append(wl_logged_data, WattRow)
            /\ UNCHANGED wl_log_timers
    /\ UNCHANGED <<wl_ser, wl_timers, wl_last_torque, wl_last_speed,
                   wl_last_watts, wl_torque_label, wl_logging_active>>
    /\ UNCHANGED notWatt

WattNext ==
    \/ WattConnect
    \/ WattTimer
    \/ WattStartLogging
    \/ WattStopLogging
    \/ WattLogTimer

(***************************************************************************)
(*                 Functions applied to one input                          *)
(***************************************************************************)
\* Read buffers: address, function, byte count, four data bytes, CRC and one
\* byte more, cut to 0, 8, 9 or 10 bytes; the CRC bytes are not read by the
\* parsers.
ParseBuffers ==
    {SubSeq(<<1, 3, bc, 0, 0, hi, lo, 0, 0, 1>>, 1, n) :
        bc \in {2, 4}, hi \in {0, 39, 255}, lo \in {0, 16, 255},
        n \in {0, 8, 9, 10}}

\* VescUart.get_values on the VescData `data`, given what the line delivers.
GetValues(data, stream) ==
    LET r == ReceiveUartMessage(stream)
    IN  IF GetValuesOk(r)
        THEN [ok |-> TRUE, data |-> process_read_packet(data, r.message)]
        ELSE [ok |-> FALSE, data |-> data]

\* COMM_GET_VALUES payloads: the packet id and the first n - 1 bytes of the
\* reply.
ValuesPayload(n) ==
    SubSeq(ValuesMessage(COMM_GET_VALUES, SampleBits, SampleVolts) \o Zeros(17),
           1, n)

\* 3: a few fields; 29: every field _process_read_packet reads; 55 and 56:
\* around the test of get_values; 73: the whole field list.
ValuesLengths == {3, 29, 55, 56, 73}

GetValuesCases ==
    {[stream |-> pack_payload(ValuesPayload(n)),
      out |-> GetValues(VescData, pack_payload(ValuesPayload(n)))] :
        n \in ValuesLengths}

\* Each function is applied once, to one input.
FnInit ==
    /\ fn_op = "none"
    /\ fn_in = <<>>
    /\ fn_out = <<>>

\* CombinedLoggerApp.send_modbus_frame parses one buffer.
FnParseResponse ==
    /\ app = "functions"
    /\ fn_op = "none"
    /\ \E buf \in ParseBuffers :
         /\ fn_op' = "send_modbus_frame"
         /\ fn_in' = [buf |-> buf, signed |-> FALSE]
         /\ fn_out' = ParseResponse(buf)
    /\ UNCHANGED notFn

\* ModbusActiveApp.send_raw_frame parses one buffer.
FnParseRaw ==
    /\ app = "functions"
    /\ fn_op = "none"
    /\ \E buf \in ParseBuffers, signed \in BOOLEAN :
         /\ fn_op' = "send_raw_frame"
         /\ fn_in' = [buf |-> buf, signed |-> signed]
         /\ fn_out' = ParseRaw(buf, signed)
    /\ UNCHANGED notFn

\* VescUart.get_values on a fresh VescUart.
FnGetValues ==
    /\ app = "functions"
    /\ fn_op = "none"
    /\ \E c \in GetValuesCases :
         /\ fn_op' = "get_values"
         /\ fn_in' = c.stream
         /\ fn_out' = c.out
    /\ UNCHANGED notFn

\* get_can_id over every command id and node id of one byte.
IdRange == 0..255

FnGetCanId ==
    /\ app = "functions"
    /\ fn_op = "none"
    /\ \E command_id \in IdRange, vesc_id \in IdRange :
         /\ fn_op' = "get_can_id"
         /\ fn_in' = <<command_id, vesc_id>>
         /\ fn_out' = get_can_id(command_id, vesc_id)
    /\ UNCHANGED notFn

\* The request frames that update_readings and update_modbus_readings send:
\* torque, speed and watts.
RequestFrames ==
    { <<1, 3, 0, 0, 0, 2, 196, 11>>,
      <<1, 3, 0, 2, 0, 2, 101, 203>>,
      <<1, 3, 0, 4, 0, 2, 133, 202>> }

\* calc_crc over the first six bytes of a request frame.
FnCalcCrc ==
    /\ app = "functions"
    /\ fn_op = "none"
    /\ \E frame \in RequestFrames :
         /\ fn_op' = "calc_crc"
         /\ fn_in' = frame
         /\ fn_out' = calc_crc(SubSeq(frame, 1, 6))
    /\ UNCHANGED notFn

\* Inputs of _crc16: every sequence of up to MaxCrcLen bytes over CrcBytes,
\* and the ASCII digits "123456789".
CrcBytes == {0, 1, 2, 16, 33, 85, 127, 128, 170, 255}

CrcInputs ==
    UNION {[1..k -> CrcBytes] : k \in 0..MaxCrcLen}
      \cup {<<49, 50, 51, 52, 53, 54, 55, 56, 57>>}

FnCrc16 ==
    /\ app = "functions"
    /\ fn_op = "none"
    /\ \E data \in CrcInputs :
         /\ fn_op' = "_crc16"
         /\ fn_in' = data
         /\ fn_out' = crc16(data)
    /\ UNCHANGED notFn

\* struct.unpack('>I', frame.data[0:4]): the unsigned 32-bit value
\* hi * 65536 + lo, kept as its two 16-bit halves <<hi, lo>>.
Erpm(data) == <<U16(data, 1), U16(data, 3)>>

\* A value the code divides by `scale`.
Scaled(raw, scale) == [raw |-> raw, scale |-> scale]

\* read_can_data, the decoding of a CAN_PACKET_STATUS payload.
DecodeStatus(data) ==
    [rpm |-> Erpm(data), current |-> Scaled(S16(data, 5), 10)]

\* read_can_data, the decoding of a CAN_PACKET_STATUS_5 payload.
DecodeStatus5(data) == [voltage |-> Scaled(U16(data, 5), 10)]

StatusPayloads ==
    {<<a, 0, 3, b, c, d, 0, 0>> :
        a \in {0, 127, 128, 255}, b \in {232, 255},
        c \in {0, 127, 128, 255}, d \in {0, 100, 255}}

FnDecodeStatus ==
    /\ app = "functions"
    /\ fn_op = "none"
    /\ \E data \in StatusPayloads :
         /\ fn_op' = "status"
         /\ fn_in' = data
         /\ fn_out' = DecodeStatus(data)
    /\ UNCHANGED notFn

FnDecodeStatus5 ==
    /\ app = "functions"
    /\ fn_op = "none"
    /\ \E data \in StatusPayloads :
         /\ fn_op' = "status_5"
         /\ fn_in' = data
         /\ fn_out' = DecodeStatus5(data)
    /\ UNCHANGED notFn

\* VescUart command ids used by the commands that can be forwarded.
COMM_SET_DUTY == 5

COMM_SET_CURRENT == 6

COMM_SET_RPM == 8

COMM_ALIVE == 29

COMM_FORWARD_CAN == 33

\* struct.pack('>i', v) for -2^31 <= v < 2^31.
StructPackInt(v) ==
    LET b(n) == <<n \div 16777216, (n \div 65536) % 256, (n \div 256) % 256,
                  n % 256>>
    IN  IF v >= 0 THEN b(v) ELSE [i \in 1..4 |-> 255 - b((-v) - 1)[i]]

\* struct.pack('>f', v) for the values the commands are tried with: the
\* IEEE 754 single-precision encodings of 0.0, 1000.0 and -1000.0.
StructPackFloat(v) ==
    CASE v = 0 -> <<0, 0, 0, 0>>
      [] v = 1000 -> <<68, 122, 0, 0>>
      [] v = -1000 -> <<196, 122, 0, 0>>

\* The payload each command builds before `if can_id:`.
CommandBody(cmd, arg) ==
    CASE cmd = "get_values" -> <<COMM_GET_VALUES>>
      [] cmd = "set_current" -> <<COMM_SET_CURRENT>> \o StructPackFloat(arg * 1000)
      [] cmd = "set_rpm" -> <<COMM_SET_RPM>> \o StructPackInt(arg)
      [] cmd = "set_duty" -> <<COMM_SET_DUTY>> \o StructPackInt(arg * 100000)
      [] cmd = "send_keepalive" -> <<COMM_ALIVE>>

\* A forwarding test that also takes can_id 0 for a node.
ForwardedAlways(can_id) == TRUE

\* `if can_id:`, the truth value of an int.
Forwarded(can_id) == can_id # 0

\* The payload get_values, set_current, set_rpm, set_duty and send_keepalive
\* pass to _pack_payload.
CommandPayload(cmd, arg, can_id) ==
    IF Forwarded(can_id)
    THEN <<COMM_FORWARD_CAN, can_id>> \o CommandBody(cmd, arg)
    ELSE CommandBody(cmd, arg)

\* The commands with the arguments they are tried with; get_values and
\* send_keepalive take none.
CommandCalls ==
    {<<"get_values", 0>>, <<"send_keepalive", 0>>}
      \cup ({"set_current", "set_rpm", "set_duty"} \X {-1, 0, 1})

\* A caller either leaves can_id at its default, 0, or names a node id of
\* one byte.
NodeArgs ==
    {[addressed |-> FALSE, can_id |-> 0]}
      \cup {[addressed |-> TRUE, can_id |-> n] : n \in IdRange}

\* One command of VescUart builds its payload and writes the packed frame.
FnCommand ==
    /\ app = "functions"
    /\ fn_op = "none"
    /\ \E c \in CommandCalls, node \in NodeArgs :
         /\ fn_op' = "command"
         /\ fn_in' = [cmd |-> c[1], arg |-> c[2], node |-> node]
         /\ fn_out' = [payload |-> CommandPayload(c[1], c[2], node.can_id),
                       written |->
                         pack_payload(CommandPayload(c[1], c[2], node.can_id))]
    /\ UNCHANGED notFn

\* The torque response `buf` decoded by both dashboards:
\* CombinedLoggerApp.send_modbus_frame and ModbusActiveApp.send_raw_frame with
\* signed=True, as update_readings calls it.
FnTorque ==
    /\ app = "functions"
    /\ fn_op = "none"
    /\ \E buf \in ParseBuffers :
         /\ fn_op' = "torque"
         /\ fn_in' = buf
         /\ fn_out' = [combined |-> ParseResponse(buf),
                       bare |-> ParseRaw(buf, TRUE)]
    /\ UNCHANGED notFn

FnNext ==
    \/ FnParseResponse
    \/ FnParseRaw
    \/ FnGetValues
    \/ FnGetCanId
    \/ FnCalcCrc
    \/ FnCrc16
    \/ FnDecodeStatus
    \/ FnDecodeStatus5
    \/ FnCommand
    \/ FnTorque

(***************************************************************************)
(* VESCReader (USB-CAN-CurrentLOG.py).  connect starts one read_can_data   *)
(* thread and one send_keep_alive thread; the handlers run on the Tk main  *)
(* thread and the threads run step by step between them.                   *)
(***************************************************************************)
VrThreads == 1..MaxReaderConnects

NoRead == [kind |-> "none"]

NoSent == [kind |-> "none"]

\* Frames the adapter may deliver to self.device.read.
VrFrame(ext, echo, err, id, data) ==
    [kind |-> "frame", is_extended |-> ext, echo_none |-> echo, err |-> err,
     can_id |-> id, data |-> data]

VrFrames ==
    { VrFrame(TRUE, TRUE, FALSE, CAN_ID_STATUS, <<0, 0, 3, 232, 0, 100, 0, 0>>),
      VrFrame(TRUE, TRUE, FALSE, CAN_ID_STATUS_5, <<0, 0, 0, 0, 0, 240>>),
      VrFrame(TRUE, TRUE, FALSE, CAN_ID_STATUS, <<0, 0, 3, 232, 0, 100, 0>>),
      VrFrame(TRUE, TRUE, FALSE, CAN_ID_STATUS_5, <<0, 0, 0, 0, 0>>),
      VrFrame(FALSE, TRUE, FALSE, CAN_ID_STATUS, <<0, 0, 3, 232, 0, 100, 0, 0>>),
      VrFrame(TRUE, FALSE, FALSE, CAN_ID_STATUS, <<0, 0, 3, 232, 0, 100, 0, 0>>),
      VrFrame(TRUE, TRUE, TRUE, CAN_ID_STATUS, <<0, 0, 3, 232, 0, 100, 0, 0>>) }

\* VESCReader.__init__ and setup_gui.
ReaderInit ==
    /\ vr_device = "None"
    /\ vr_dev_started = FALSE
    /\ vr_dev_fault = FALSE
    /\ vr_active = FALSE
    /\ vr_logging = FALSE
    /\ vr_start_time = 0
    /\ vr_log_data = <<>>
    /\ vr_plot_data = [current |-> <<>>, voltage |-> <<>>]
    /\ vr_rpm_label = <<>>
    /\ vr_status_label = "Not connected."
    /\ vr_window = "open"
    /\ vr_main = "idle"
    /\ vr_threads = 0
    /\ vr_reader_pc = [t \in VrThreads |-> "none"]
    /\ vr_frame = [t \in VrThreads |-> NoRead]
    /\ vr_sender_pc = [t \in VrThreads |-> "none"]
    /\ vr_sent = NoSent

\* A button handler can run: the window exists and the main thread is not
\* inside another handler.
VrMainIdle == vr_window = "open" /\ vr_main = "idle"

\* A loop condition that also asks for logging.
VrLoopConditionLogging == vr_active /\ vr_logging /\ Truthy(vr_device)

\* The while condition of read_can_data and of send_keep_alive.
VrLoopCondition == vr_active /\ Truthy(vr_device)

ConnectActiveAlways(outcome) == TRUE

\* self.active = True is reached only when scan, set_bitrate and start
\* succeeded.
ConnectActive(outcome) == outcome = "ok"

\* connect.
VrConnect ==
    /\ app = "USB-CAN"
    /\ VrMainIdle
    /\ ~vr_active
    /\ \E outcome \in {"nodevice", "refused", "start_raises", "ok"} :
         /\ outcome = "ok" => vr_threads < MaxReaderConnects
         /\ vr_device' = CASE outcome = "nodevice" -> vr_device
                           [] outcome = "refused" -> "None"
                           [] OTHER -> "Dev"
         /\ vr_dev_started' = CASE outcome = "nodevice" -> vr_dev_started
                                [] outcome = "ok" -> TRUE
                                [] OTHER -> FALSE
         /\ vr_dev_fault' = IF outcome = "nodevice" THEN vr_dev_fault ELSE FALSE
         /\ vr_status_label' =
               CASE outcome = "nodevice" -> "No gs_usb device detected."
                 [] outcome = "refused" -> "Failed to set CAN bitrate."
                 [] outcome = "start_raises" -> "Connection Error"
                 [] OTHER -> "Connected"
         /\ vr_active' = ConnectActive(outcome)
         /\ vr_threads' = IF outcome = "ok" THEN vr_threads + 1 ELSE vr_threads
         /\ vr_reader_pc' = IF outcome = "ok"
                            THEN [vr_reader_pc EXCEPT ![vr_threads + 1] = "check"]
                            ELSE vr_reader_pc
         /\ vr_sender_pc' = IF outcome = "ok"
                            THEN [vr_sender_pc EXCEPT ![vr_threads + 1] = "check"]
                            ELSE vr_sender_pc
    /\ UNCHANGED <<vr_logging, vr_start_time, vr_log_data, vr_plot_data,
                   vr_rpm_label, vr_window, vr_main, vr_frame, vr_sent>>
    /\ UNCHANGED notReader

\* The body of disconnect, which returns at once when not active: logging is
\* stopped, the device is stopped and the handle is dropped.  `label` is the
\* text of the status label when disconnect is entered.
VrDisconnectBody(label) ==
    IF ~vr_active
    THEN /\ vr_status_label' = label
         /\ UNCHANGED <<vr_active, vr_logging, vr_dev_started, vr_device>>
    ELSE /\ vr_active' = FALSE
         /\ vr_logging' = FALSE
         /\ vr_dev_started' = IF Truthy(vr_device) THEN FALSE ELSE vr_dev_started
         /\ vr_device' = "None"
         /\ vr_status_label' = "Disconnected."

\* The Disconnect button.
VrDisconnect ==
    /\ app = "USB-CAN"
    /\ VrMainIdle
    /\ vr_active
    /\ VrDisconnectBody(vr_status_label)
    /\ UNCHANGED <<vr_dev_fault, vr_start_time, vr_log_data, vr_plot_data,
                   vr_rpm_label, vr_window, vr_main, vr_threads, vr_reader_pc,
                   vr_frame, vr_sender_pc, vr_sent>>
    /\ UNCHANGED notReader

\* The two early returns of start_logging.
VrStartGuard == vr_active /\ ~vr_logging

\* start_logging up to self.log_data = []: the flag is set before the clock.
VrStartLogging ==
    /\ app = "USB-CAN"
    /\ VrMainIdle
    /\ VrStartGuard
    /\ vr_start_time < MaxReaderSessions
    /\ vr_logging' = TRUE
    /\ vr_log_data' = <<>>
    /\ vr_main' = "start_logging"
    /\ UNCHANGED <<vr_device, vr_dev_started, vr_dev_fault, vr_active,
                   vr_start_time, vr_plot_data, vr_rpm_label, vr_status_label,
                   vr_window, vr_threads, vr_reader_pc, vr_frame, vr_sender_pc,
                   vr_sent>>
    /\ UNCHANGED notReader

\* start_logging from self.start_time = time.time() to its end.
VrStartLoggingClock ==
    /\ app = "USB-CAN"
    /\ vr_main = "start_logging"
    /\ vr_start_time' = vr_start_time + 1
    /\ vr_plot_data' = [current |-> <<>>, voltage |-> <<>>]
    /\ vr_status_label' = "Logging started."
    /\ vr_main' = "idle"
    /\ UNCHANGED <<vr_device, vr_dev_started, vr_dev_fault, vr_active,
                   vr_logging, vr_log_data, vr_rpm_label, vr_window,
                   vr_threads, vr_reader_pc, vr_frame, vr_sender_pc, vr_sent>>
    /\ UNCHANGED notReader

\* stop_logging, from the Stop Log button.
VrStopLogging ==
    /\ app = "USB-CAN"
    /\ VrMainIdle
    /\ vr_logging
    /\ vr_logging' = FALSE
    /\ vr_status_label' = "Logging stopped."
    /\ UNCHANGED <<vr_device, vr_dev_started, vr_dev_fault, vr_active,
                   vr_start_time, vr_log_data, vr_plot_data, vr_rpm_label,
                   vr_window, vr_main, vr_threads, vr_reader_pc, vr_frame,
                   vr_sender_pc, vr_sent>>
    /\ UNCHANGED notReader

\* stop, called by on_closing before root.destroy(): the flags are cleared
\* and then disconnect is called.
VrStop ==
    /\ app = "USB-CAN"
    /\ VrMainIdle
    /\ vr_active' = FALSE
    /\ vr_logging' = FALSE
    /\ vr_window' = "destroyed"
    /\ UNCHANGED <<vr_device, vr_dev_started, vr_status_label>>
    /\ UNCHANGED <<vr_dev_fault, vr_start_time, vr_log_data, vr_plot_data,
                   vr_rpm_label, vr_main, vr_threads, vr_reader_pc, vr_frame,
                   vr_sender_pc, vr_sent>>
    /\ UNCHANGED notReader

\* The adapter is unplugged (or its USB transfers start failing).
VrFault ==
    /\ app = "USB-CAN"
    /\ Truthy(vr_device)
    /\ vr_dev_started
    /\ ~vr_dev_fault
    /\ vr_dev_fault' = TRUE
    /\ UNCHANGED <<vr_device, vr_dev_started, vr_active, vr_logging,
                   vr_start_time, vr_log_data, vr_plot_data, vr_rpm_label,
                   vr_status_label, vr_window, vr_main, vr_threads,
                   vr_reader_pc, vr_frame, vr_sender_pc, vr_sent>>
    /\ UNCHANGED notReader

\* What self.device.read(frame, 0.01) may do: raise (AttributeError on None,
\* or the adapter's error), time out, or deliver a frame.
VrReadOutcomes ==
    IF ~Truthy(vr_device) THEN {[kind |-> "raise"]}
    ELSE IF vr_dev_fault \/ ~vr_dev_started
         THEN {[kind |-> "raise"], [kind |-> "timeout"]}
         ELSE {[kind |-> "timeout"]} \cup VrFrames

\* What self.device.send(frame) may do.
VrSendOutcomes ==
    IF ~Truthy(vr_device) \/ vr_dev_fault \/ ~vr_dev_started
    THEN {"raise"} ELSE {"sent"}

\* An acceptance test that does not look at echo_id.
VrAcceptedAnyEcho(f) == f.is_extended /\ ~f.err

\* The acceptance test of read_can_data.
VrAccepted(f) == f.is_extended /\ f.echo_none /\ ~f.err

VrStatusOkFrom7(f) == Len(f.data) >= 7

\* len(frame.data) >= 8
VrStatusOk(f) == Len(f.data) >= 8

\* len(frame.data) >= 6
VrStatus5Ok(f) == Len(f.data) >= 6

\* The branch of read_can_data a delivered frame takes, and what it prints.
VrBranch(f) ==
    IF ~VrAccepted(f) THEN "dropped"
    ELSE IF f.can_id = CAN_ID_STATUS
         THEN IF VrStatusOk(f) THEN "status"
              ELSE "CAN_PACKET_STATUS frame has insufficient data."
    ELSE IF f.can_id = CAN_ID_STATUS_5
         THEN IF VrStatus5Ok(f) THEN "status_5"
              ELSE "CAN_PACKET_STATUS_5 frame has insufficient data."
    ELSE "dropped"

\* The local variable `frame` after the read, with the branch taken.
VrRead(f) ==
    [kind |-> "frame", is_extended |-> f.is_extended,
     echo_none |-> f.echo_none, err |-> f.err, can_id |-> f.can_id,
     data |-> f.data, branch |-> VrBranch(f)]

VrDecoded(f) == f.kind = "frame" /\ VrBranch(f) \in {"status", "status_5"}

\* Rows that threads past their read are about to append.
VrPendingRows == Cardinality({t \in VrThreads : vr_reader_pc[t] = "log"})

\* read_can_data: the while condition.
VrReaderCheck(t) ==
    /\ app = "USB-CAN"
    /\ vr_reader_pc[t] = "check"
    /\ vr_reader_pc' = [vr_reader_pc EXCEPT ![t] =
                           IF VrLoopCondition THEN "read" ELSE "done"]
    /\ vr_frame' = [vr_frame EXCEPT ![t] = NoRead]
    /\ UNCHANGED <<vr_device, vr_dev_started, vr_dev_fault, vr_active,
                   vr_logging, vr_start_time, vr_log_data, vr_plot_data,
                   vr_rpm_label, vr_status_label, vr_window, vr_main,
                   vr_threads, vr_sender_pc, vr_sent>>
    /\ UNCHANGED notReader

\* read_can_data: self.device.read, the acceptance test, the decoding, the
\* labels and the test of self.logging; the except clause sets the status
\* label and calls disconnect.
VrReaderRead(t) ==
    /\ app = "USB-CAN"
    /\ vr_reader_pc[t] = "read"
    /\ \E f \in VrReadOutcomes :
         /\ (VrDecoded(f) /\ vr_logging)
               => Len(vr_log_data) + VrPendingRows < MaxReaderLog
         /\ vr_reader_pc' = [vr_reader_pc EXCEPT ![t] =
               CASE f.kind = "raise" -> "done"
                 [] VrDecoded(f) /\ vr_logging -> "log"
                 [] OTHER -> "check"]
         /\ vr_frame' = [vr_frame EXCEPT ![t] =
               CASE f.kind = "raise" -> NoRead
                 [] f.kind = "timeout" -> f
                 [] OTHER -> VrRead(f)]
         /\ vr_rpm_label' =
               IF f.kind = "frame" /\ VrBranch(f) = "status"
               THEN <<U32(f.data, 1)>> ELSE vr_rpm_label
         /\ IF f.kind = "raise"
            THEN VrDisconnectBody("Read Error")
            ELSE UNCHANGED <<vr_active, vr_logging, vr_dev_started, vr_device,
                             vr_status_label>>
    /\ UNCHANGED <<vr_dev_fault, vr_start_time, vr_log_data, vr_plot_data,
                   vr_window, vr_main, vr_threads, vr_sender_pc, vr_sent>>
    /\ UNCHANGED notReader

\* The row appended under self.lock.  current and voltage are in tenths.
VrRow(f) ==
    IF f.branch = "status"
    THEN [session |-> vr_start_time,
          current |-> S16(f.data, 5),
          voltage |-> IF vr_plot_data.voltage # <<>>
                      THEN Last(vr_plot_data.voltage) ELSE 0,
          rpm |-> <<"int", U32(f.data, 1)>>]
    ELSE [session |-> vr_start_time,
          current |-> IF vr_plot_data.current # <<>>
                      THEN Last(vr_plot_data.current) ELSE 0,
          voltage |-> U16(f.data, 5),
          rpm |-> <<"str", vr_rpm_label>>]

\* read_can_data: with self.lock, the timestamp is computed and the row and
\* the plot point are appended.  time.time() - None raises TypeError, which
\* the except clause handles like a read error.
VrReaderLog(t) ==
    /\ app = "USB-CAN"
    /\ vr_reader_pc[t] = "log"
    /\ IF vr_start_time = 0
       THEN /\ VrDisconnectBody("Read Error")
            /\ vr_reader_pc' = [vr_reader_pc EXCEPT ![t] = "done"]
            /\ UNCHANGED <<vr_log_data, vr_plot_data>>
       ELSE /\ vr_log_data' = Append(vr_log_data, VrRow(vr_frame[t]))
            /\ vr_plot_data' =
                 IF vr_frame[t].branch = "status"
                 THEN [vr_plot_data EXCEPT
                         !.current = Append(@, S16(vr_frame[t].data, 5))]
                 ELSE [vr_plot_data EXCEPT
                         !.voltage = Append(@, U16(vr_frame[t].data, 5))]
            /\ vr_reader_pc' = [vr_reader_pc EXCEPT ![t] = "check"]
            /\ UNCHANGED <<vr_active, vr_logging, vr_dev_started, vr_device,
                           vr_status_label>>
    /\ UNCHANGED <<vr_dev_fault, vr_start_time, vr_rpm_label, vr_window,
                   vr_main, vr_threads, vr_frame, vr_sender_pc, vr_sent>>
    /\ UNCHANGED notReader

\* send_keep_alive: the while condition.
VrSenderCheck(t) ==
    /\ app = "USB-CAN"
    /\ vr_sender_pc[t] = "check"
    /\ vr_sender_pc' = [vr_sender_pc EXCEPT ![t] =
                           IF VrLoopCondition THEN "send" ELSE "done"]
    /\ UNCHANGED <<vr_device, vr_dev_started, vr_dev_fault, vr_active,
                   vr_logging, vr_start_time, vr_log_data, vr_plot_data,
                   vr_rpm_label, vr_status_label, vr_window, vr_main,
                   vr_threads, vr_reader_pc, vr_frame, vr_sent>>
    /\ UNCHANGED notReader

CAN_PACKET_SET_CURRENT_REL == 10

\* current_rel = 0.0
CurrentRel == 0

\* The four bytes of a natural number below 2^31, most significant first.
Bytes4(v) ==
    <<v \div 16777216, (v \div 65536) % 256, (v \div 256) % 256, v % 256>>

\* int.to_bytes(4, byteorder='big', signed=True)
ToBytes4(v) ==
    IF v >= 0 THEN Bytes4(v)
    ELSE [i \in 1..4 |-> 255 - Bytes4((-v) - 1)[i]]

\* The frame send_keep_alive builds.
KeepAliveFrame ==
    [kind |-> "frame",
     can_id |-> get_can_id(CAN_PACKET_SET_CURRENT_REL, VESC_ID),
     is_extended |-> TRUE,
     is_remote |-> FALSE,
     data |-> ToBytes4(CurrentRel * 100000),
     dlc |-> 4]

\* send_keep_alive: the frame is built and self.device.send(frame) is called,
\* then the 20 ms sleep; the except clause sets the status label and calls
\* disconnect.
VrSenderSend(t) ==
    /\ app = "USB-CAN"
    /\ vr_sender_pc[t] = "send"
    /\ \E o \in VrSendOutcomes :
         /\ vr_sender_pc' = [vr_sender_pc EXCEPT ![t] =
                                IF o = "raise" THEN "done" ELSE "check"]
         /\ vr_sent' = IF o = "raise" THEN vr_sent ELSE KeepAliveFrame
         /\ IF o = "raise"
            THEN VrDisconnectBody("Send Error")
            ELSE UNCHANGED <<vr_active, vr_logging, vr_dev_started, vr_device,
                             vr_status_label>>
    /\ UNCHANGED <<vr_dev_fault, vr_start_time, vr_log_data, vr_plot_data,
                   vr_rpm_label, vr_window, vr_main, vr_threads, vr_reader_pc,
                   vr_frame>>
    /\ UNCHANGED notReader

ReaderNext ==
    \/ VrConnect
    \/ VrDisconnect
    \/ VrStartLogging
    \/ VrStartLoggingClock
    \/ VrStopLogging
    \/ VrStop
    \/ VrFault
    \/ \E t \in VrThreads :
         \/ VrReaderCheck(t)
         \/ VrReaderRead(t)
         \/ VrReaderLog(t)
         \/ VrSenderCheck(t)
         \/ VrSenderSend(t)

(***************************************************************************)
(* The serial line.  A request is written, the device answers later (or    *)
(* never), the answer waits in the serial input buffer until it is read.   *)
(* Every byte carries the number of the request it answers, so that what a *)
(* call returns can be traced to the request it was sent for.              *)
(***************************************************************************)
NoBytes == [bytes |-> <<>>, ids |-> <<>>]

Tagged(bytes, id) == [bytes |-> bytes, ids |-> [i \in 1..Len(bytes) |-> id]]

Cat(a, b) == [bytes |-> a.bytes \o b.bytes, ids |-> a.ids \o b.ids]

Part(a, lo, hi) ==
    [bytes |-> SubSeq(a.bytes, lo, hi), ids |-> SubSeq(a.ids, lo, hi)]

NoReading == [value |-> None, from |-> 0, req |-> 0]

NoValues == [ok |-> FALSE, from |-> {}, req |-> 0]

LineInit ==
    /\ ln_pc = "closed"
    /\ ln_req = 0
    /\ ln_flight = <<>>
    /\ ln_input = NoBytes
    /\ ln_buf = NoBytes
    /\ ln_torque = NoReading
    /\ ln_speed = NoReading
    /\ ln_result = NoValues

\* The transducer's answer to the torque query (12.50 Nm) and to the speed
\* query (3000.0 RPM).
LineReply(kind) == GoodResponse(IF kind = "torque" THEN 1250 ELSE 30000)

\* send_modbus_frame up to its read loop: reset_input_buffer, write, flush,
\* response_buffer = bytearray().  The device answers the request after a
\* delay of its own, or not at all.
LineWrite(kind) ==
    /\ ln_input' = NoBytes
    /\ ln_req' = ln_req + 1
    /\ ln_buf' = NoBytes
    /\ \E answered \in BOOLEAN :
         ln_flight' = IF answered
                      THEN Append(ln_flight,
                                  Tagged(LineReply(kind), ln_req + 1))
                      ELSE ln_flight

\* send_modbus_frame after its read loop: the value parsed, the request the
\* parsed bytes answer, and the request this call wrote.
Reading ==
    [value |-> ParseResponse(ln_buf.bytes),
     from |-> IF ParseResponse(ln_buf.bytes) = None THEN 0 ELSE ln_buf.ids[7],
     req |-> ln_req]

\* start_modbus_logging opens the port and schedule_modbus_update begins the
\* first update_modbus_readings: the torque request is written.
MlStart ==
    /\ app = "AllInOne"
    /\ ln_pc = "closed"
    /\ LineWrite("torque")
    /\ ln_pc' = "torque"
    /\ UNCHANGED <<ln_torque, ln_speed, ln_result>>
    /\ UNCHANGED notLine

\* The after() timer fires: schedule_modbus_update, update_modbus_readings up
\* to the read window of the torque request.
MlTimer ==
    /\ app = "AllInOne"
    /\ ln_pc = "idle"
    /\ ln_req < 2 * MaxLineTicks
    /\ LineWrite("torque")
    /\ ln_pc' = "torque"
    /\ UNCHANGED <<ln_torque, ln_speed, ln_result>>
    /\ UNCHANGED notLine

\* The device puts its next response on the line; the driver stores it in the
\* serial input buffer.
LineArrive ==
    /\ app \in {"AllInOne", "USB-VESC"}
    /\ ln_flight # <<>>
    /\ ln_input' = Cat(ln_input, Head(ln_flight))
    /\ ln_flight' = Tail(ln_flight)
    /\ UNCHANGED <<ln_pc, ln_req, ln_buf, ln_torque, ln_speed, ln_result>>
    /\ UNCHANGED notLine

\* chunk = self.ser.read(64) inside the 50 ms window.
MlRead ==
    /\ app = "AllInOne"
    /\ ln_pc \in {"torque", "speed"}
    /\ ln_input # NoBytes
    /\ LET n == IF Len(ln_input.bytes) < 64 THEN Len(ln_input.bytes) ELSE 64
       IN  /\ ln_buf' = Cat(ln_buf, Part(ln_input, 1, n))
           /\ ln_input' = Part(ln_input, n + 1, Len(ln_input.bytes))
    /\ UNCHANGED <<ln_pc, ln_req, ln_flight, ln_torque, ln_speed, ln_result>>
    /\ UNCHANGED notLine

\* The 50 ms of the torque query are over: the buffer is parsed, and
\* update_modbus_readings goes on to write the speed request.
MlTorqueDone ==
    /\ app = "AllInOne"
    /\ ln_pc = "torque"
    /\ ln_torque' = Reading
    /\ LineWrite("speed")
    /\ ln_pc' = "speed"
    /\ UNCHANGED <<ln_speed, ln_result>>
    /\ UNCHANGED notLine

\* The 50 ms of the speed query are over: the buffer is parsed and
\* update_modbus_readings returns.
MlSpeedDone ==
    /\ app = "AllInOne"
    /\ ln_pc = "speed"
    /\ ln_speed' = Reading
    /\ ln_pc' = "idle"
    /\ UNCHANGED <<ln_req, ln_flight, ln_input, ln_buf, ln_torque, ln_result>>
    /\ UNCHANGED notLine

ModbusLineNext ==
    \/ MlStart
    \/ MlTimer
    \/ LineArrive
    \/ MlRead
    \/ MlTorqueDone
    \/ MlSpeedDone

\* VescGUI.start_logging: VescUart(port, baudrate) opens the serial port and
\* the polling thread is started.
VlStart ==
    /\ app = "USB-VESC"
    /\ ln_pc = "closed"
    /\ ln_pc' = "idle"
    /\ UNCHANGED <<ln_req, ln_flight, ln_input, ln_buf, ln_torque, ln_speed,
                   ln_result>>
    /\ UNCHANGED notLine

\* poll_data calls get_values: the request is written and
\* _receive_uart_message starts with message = bytearray(); the serial input
\* is left as it is.  The VESC answers after a delay of its own, in one piece
\* or in two, or not at all.
VlCall ==
    /\ app = "USB-VESC"
    /\ ln_pc = "idle"
    /\ ln_req < MaxLineCalls
    /\ ln_req' = ln_req + 1
    /\ ln_buf' = NoBytes
    /\ ln_pc' = "receiving"
    /\ LET reply == Tagged(GoodReply, ln_req + 1)
       IN  \E pieces \in 0..2 :
             ln_flight' =
               CASE pieces = 0 -> ln_flight
                 [] pieces = 1 -> Append(ln_flight, reply)
                 [] pieces = 2 ->
                      ln_flight \o <<Part(reply, 1, 30),
                                     Part(reply, 31, Len(GoodReply))>>
    /\ UNCHANGED <<ln_input, ln_torque, ln_speed, ln_result>>
    /\ UNCHANGED notLine

\* The bytes _receive_uart_message takes from a serial input `avail` when
\* `message` holds `got`: up to the byte at which the frame test decides.
Taken(got, avail) ==
    LET decided == {k \in 1..Len(avail) :
                      RecvTest(got \o SubSeq(avail, 1, k)) # "more"}
    IN  IF decided = {} THEN Len(avail)
        ELSE CHOOSE k \in decided : \A j \in decided : k <= j

\* What get_values returns for the frame `m` that ended the receive loop.
Values(m) ==
    LET r == IF RecvTest(m.bytes) = "true"
             THEN [success |-> TRUE, message |-> RecvPayload(m.bytes)]
             ELSE NoResult
    IN  [ok |-> GetValuesOk(r),
         from |-> IF GetValuesOk(r)
                  THEN {m.ids[i] : i \in 3..(2 + m.bytes[2])}
                  ELSE {},
         req |-> ln_req]

\* _receive_uart_message: the loop iterations that find in_waiting > 0, up to
\* the return or to the last byte waiting.
VlRecv ==
    /\ app = "USB-VESC"
    /\ ln_pc = "receiving"
    /\ ln_input # NoBytes
    /\ LET n == Taken(ln_buf.bytes, ln_input.bytes)
           m == Cat(ln_buf, Part(ln_input, 1, n))
       IN  /\ ln_buf' = m
           /\ ln_input' = Part(ln_input, n + 1, Len(ln_input.bytes))
           /\ IF RecvTest(m.bytes) = "more"
              THEN UNCHANGED <<ln_pc, ln_result>>
              ELSE /\ ln_pc' = "idle"
                   /\ ln_result' = Values(m)
    /\ UNCHANGED <<ln_req, ln_flight, ln_torque, ln_speed>>
    /\ UNCHANGED notLine

\* The while condition of _receive_uart_message fails: self.timeout ms have
\* elapsed; get_values returns False.
VlTimeout ==
    /\ app = "USB-VESC"
    /\ ln_pc = "receiving"
    /\ ln_pc' = "idle"
    /\ ln_result' = [ok |-> FALSE, from |-> {}, req |-> ln_req]
    /\ UNCHANGED <<ln_req, ln_flight, ln_input, ln_buf, ln_torque, ln_speed>>
    /\ UNCHANGED notLine

VescLineNext ==
    \/ VlStart
    \/ VlCall
    \/ LineArrive
    \/ VlRecv
    \/ VlTimeout

(***************************************************************************)
(*                            Specifications                               *)
(***************************************************************************)
Idle ==
    /\ UartIdle /\ ModbusInit /\ CanInit /\ VescInit
    /\ BareInit /\ WattInit /\ FnInit /\ ReaderInit /\ LineInit

InitUart ==
    /\ app = "VescUart"
    /\ UartInit /\ ModbusInit /\ CanInit /\ VescInit
    /\ BareInit /\ WattInit /\ FnInit /\ ReaderInit /\ LineInit

SpecUart == InitUart /\ [][UartNext]_vars

InitModbus == app = "AllInOne" /\ Idle

SpecModbus == InitModbus /\ [][ModbusNext]_vars

InitCan == app = "AllInOne" /\ Idle

SpecCan == InitCan /\ [][CanNext]_vars

\* The two polling dashboards, each its own process: one of them is launched.
InitPoll == app \in {"AllInOne", "USB-VESC"} /\ Idle

PollNext == ModbusNext \/ VescNext

SpecPoll == InitPoll /\ [][PollNext]_vars

InitBare == app = "BareBones" /\ Idle

SpecBare == InitBare /\ [][BareNext]_vars

InitWatt == app = "wattageLogger" /\ Idle

SpecWatt == InitWatt /\ [][WattNext]_vars

InitFn == app = "functions" /\ Idle

SpecFn == InitFn /\ [][FnNext]_vars

InitModbusLine == app = "AllInOne" /\ Idle

SpecModbusLine == InitModbusLine /\ [][ModbusLineNext]_vars

InitVescLine == app = "USB-VESC" /\ Idle

SpecVescLine == InitVescLine /\ [][VescLineNext]_vars

InitReader == app = "USB-CAN" /\ Idle

SpecReader == InitReader /\ [][ReaderNext]_vars

\* The keep-alive threads are operating-system threads: one that can take its
\* next step eventually takes it.
SpecReaderLive ==
    /\ SpecReader
    /\ \A t \in VrThreads :
          WF_vars(VrSenderCheck(t)) /\ WF_vars(VrSenderSend(t))

(***************************************************************************)
(*                              Properties                                 *)
(***************************************************************************)

\* Number of bytes _receive_uart_message has taken from the serial input.
UartConsumed == Len(uart_sent) - Len(uart_wire)

\* C4: for every byte stream delivered to _receive_uart_message, a return of
\* success carries the payload slice of the bytes consumed, and the two CRC
\* bytes that follow that slice are crc16 of it: a frame with a corrupted CRC
\* byte is never returned as a payload.
C4_ReceiveRejectsBadCrc ==
    (uart_pc = "returned" /\ uart_result.success) =>
        /\ UartConsumed >= 5
        /\ uart_result.message = SubSeq(uart_sent, 3, UartConsumed - 3)
        /\ crc16(uart_result.message) =
             uart_sent[UartConsumed - 2] * 256 + uart_sent[UartConsumed - 1]

\* A complete frame whose only changed byte is one of its two CRC bytes was
\* received to its last byte and rejected.
C4_Witness ==
    /\ uart_pc = "returned"
    /\ ~uart_result.success
    /\ uart_msg = uart_sent
    /\ pack_payload(uart_payload) # ValueError
    /\ Len(uart_sent) = Len(pack_payload(uart_payload))
    /\ \E i \in {Len(uart_sent) - 2, Len(uart_sent) - 1} :
          /\ uart_sent[i] # pack_payload(uart_payload)[i]
          /\ \A j \in (1..Len(uart_sent)) \ {i} :
                uart_sent[j] = pack_payload(uart_payload)[j]

\* C5: for any payload (lengths 0, 255, 256 and longer included), the bytes of
\* pack(payload), all delivered before the timeout, are received as success
\* with exactly the payload: pack yields a frame, and receive returns it.
C5_PackReceiveRoundTrip ==
    /\ uart_pc # "raised"
    /\ (uart_pc = "returned" /\ uart_wire = <<>>
          /\ uart_sent = pack_payload(uart_payload))
         => (uart_result.success /\ uart_result.message = uart_payload)

\* The response frame at the head of a read buffer: address, function, byte
\* count, four data bytes and the two CRC bytes.
ModbusFrameOf(buf) == SubSeq(buf, 1, 9)

FrameValidated(buf) == Len(buf) >= 9 /\ ModbusCrcOk(ModbusFrameOf(buf))

\* C1: every emitted sample was decoded from a frame that passed its length
\* check and whose checksum equals the checksum recomputed over the frame; no
\* sample comes from a frame that was short or whose checksum failed.
C1_SamplesFromValidatedFrames ==
    \A i \in 1..Len(modbus_log_data) :
        /\ FrameValidated(modbus_log_data[i].tframe)
        /\ FrameValidated(modbus_log_data[i].sframe)

\* A poll_data thread that is still in its loop.
PollerAlive(t) == poll_pc[t] \in {"check", "call", "recv", "append"}

\* C9: after any number of consecutive polls in which the response was
\* malformed (too short, wrong byte count, bad checksum on the UART line,
\* wrong packet) or did not arrive before the timeout, the session is still
\* Logging and polling goes on: the Modbus poller has its next tick scheduled
\* and its port open, the VESC poller's thread is still in its loop with the
\* port open.
C9_PollingSurvivesBadFrames ==
    /\ modbus_fail_streak > 0 =>
         /\ logging_modbus
         /\ modbus_job_id = "Pending"
         /\ ser = "Open"
    /\ vesc_fail_streak > 0 =>
         /\ logging_running
         /\ vesc # 0
         /\ PollerAlive(vesc_threads)

\* MaxFailStreak consecutive polls have failed and the poller goes on, in
\* either dashboard.
C9_Witness ==
    \/ /\ modbus_fail_streak = MaxFailStreak
       /\ modbus_last_tick = "failed"
       /\ logging_modbus
       /\ modbus_job_id = "Pending"
    \/ /\ vesc_fail_streak = MaxFailStreak
       /\ logging_running
       /\ PollerAlive(vesc_threads)

\* The same, the VESC poller alone.
C9_VescWitness ==
    /\ vesc_fail_streak = MaxFailStreak
    /\ logging_running
    /\ PollerAlive(vesc_threads)

\* C2: once the CAN session has left Logging (stop_can_logging or
\* disconnect_can has returned) no further row is appended to its log, even
\* when a read that was in flight completes afterwards with a valid frame.
C2_NoSampleAfterStop ==
    [][(~can_logging /\ ~can_logging') => can_log_data' = can_log_data]_vars

\* C3: no thread is ever past its loop test, about to call read or send on
\* the handle, when the handle has been stopped or set to None: stop and
\* disconnect halt the threads first.
C3_NoUseOfClosedHandle ==
    \A t \in CanThreads :
        (reader_pc[t] = "read" \/ sender_pc[t] = "send")
            => (can_device = "Dev" /\ dev_started)

\* The state of the CAN session.
CanState ==
    IF can_logging THEN "Logging"
    ELSE IF can_active THEN "Connected"
    ELSE "Idle"

\* The transitions of the claimed state machine; Error is passed through
\* within one handler, so Connected -> Error -> Idle shows as Connected -> Idle.
ClaimedTransitions ==
    { <<"Idle", "Connected">>, <<"Connected", "Logging">>,
      <<"Logging", "Idle">>, <<"Connected", "Idle">> }

C7_ErrorSurfacedOnce == (dev_fault /\ can_active) => can_errors <= 1

\* C8: an error is surfaced only when a transport failure occurred since the
\* adapter was connected; a stop or disconnect racing with the threads
\* surfaces none.
C8_ErrorOnlyOnTransportFailure == can_errors > 0 => dev_fault

\* C10: every write to the log and to the plot series is made under can_lock,
\* so whenever the lock is free the log and the time series hold the same
\* rows: no writer leaves a partial update behind.
C10_NoPartialUpdate ==
    can_lock = 0 => Len(can_log_data) = Len(can_plot_data.time)

\* C11: during Modbus polling a request is written only after the read
\* window of the previous one has ended and its response was handled: at most
\* one request is outstanding on the port at any time, whatever the sequence
\* of Connect presses and timer firings, also with several timer chains armed.
C11_OneRequestOutstanding ==
    /\ bb_outstanding <= 1
    /\ bb_outstanding = 1 <=> bb_pc \in {"torque", "speed"}

\* A request is in its read window while another timer chain is armed.
C11_Witness ==
    /\ bb_outstanding = 1
    /\ bb_pc = "speed"
    /\ bb_timers >= 1

\* C12: start_can_logging resets the session clock and clears the log before
\* any sample of the new session is recorded: every row in the log carries a
\* timestamp computed against the current session's can_start_time.
C12_TimestampsOfCurrentSession ==
    \A i \in 1..Len(can_log_data) :
        can_log_data[i].timestamp.session = can_threads

\* C13: within one session the elapsed-time stamps of the rows in the log are
\* non-decreasing in the order the rows were appended.
C13_TimestampsMonotonic ==
    \A i \in 1..Len(can_log_data) : \A j \in i..Len(can_log_data) :
        can_log_data[i].timestamp.session = can_log_data[j].timestamp.session
            => can_log_data[i].timestamp.elapsed
                 <= can_log_data[j].timestamp.elapsed

\* The row update_logging appends when nothing was ever decoded.
EmptyRow == [torque |-> None, speed |-> None, watts |-> None]

\* C14: once connected, no row is emitted before at least one valid frame has
\* been received and decoded: a row appended while the port is open carries
\* at least one decoded value.
C14_NoSampleBeforeValidFrame ==
    [][(wl_ser = "Open" /\ wl_logged_data' # wl_logged_data)
          => Last(wl_logged_data') # EmptyRow]_vars

\* C15: a torque above the hard ceiling of 150 Nm is not published for that
\* tick: it is neither displayed nor stored as the last torque that the logger
\* records.
C15_TorqueAboveCeilingNotPublished ==
    /\ wl_torque_label # <<>> => wl_torque_label[1] <= TorqueCeiling
    /\ wl_last_torque # None => wl_last_torque[1] <= TorqueCeiling
    /\ \A i \in 1..Len(wl_logged_data) :
          wl_logged_data[i].torque # None
             => wl_logged_data[i].torque[1] <= TorqueCeiling

\* The two data bytes a Modbus response is decoded from, as an unsigned and
\* as a two's-complement 16-bit big-endian integer.
DataWord(buf) == buf[6] * 256 + buf[7]

DataWordSigned(buf) ==
    IF DataWord(buf) >= 32768 THEN DataWord(buf) - 65536 ELSE DataWord(buf)

\* C16: Modbus response parsing, for every received buffer: no value when the
\* buffer has fewer than 9 bytes, no value when the byte-count field is not 4,
\* and otherwise the 16-bit big-endian integer formed by the last two of the
\* four data bytes (two's complement where the caller asked for a signed
\* value).
C16_ParseResponse ==
    fn_op \in {"send_modbus_frame", "send_raw_frame"} =>
        /\ Len(fn_in.buf) < 9 => fn_out = None
        /\ (Len(fn_in.buf) >= 9 /\ fn_in.buf[3] # 4) => fn_out = None
        /\ (Len(fn_in.buf) >= 9 /\ fn_in.buf[3] = 4) =>
              fn_out = <<IF fn_in.signed THEN DataWordSigned(fn_in.buf)
                                         ELSE DataWord(fn_in.buf)>>

\* A 9-byte buffer with byte count 4 and data bytes 0x27 0x10 was parsed by
\* send_modbus_frame to 10000.
C16_Witness ==
    /\ fn_op = "send_modbus_frame"
    /\ Len(fn_in.buf) = 9
    /\ fn_in.buf[3] = 4
    /\ fn_in.buf[6] = 39
    /\ fn_in.buf[7] = 16
    /\ fn_out = <<10000>>

\* C17: a well-formed long-form frame (start marker 3, 2-byte big-endian
\* length) whose bytes were all delivered before the timeout is returned as a
\* successful payload.
C17_LongFramesReceived ==
    (/\ uart_pc = "returned"
     /\ uart_sent # <<>>
     /\ uart_sent[1] = 3
     /\ uart_sent = pack_payload(uart_payload)
     /\ uart_wire = <<>>)
        => (uart_result.success /\ uart_result.message = uart_payload)

\* C18: the return after a complete frame with a wrong CRC is distinguishable
\* from the return after the timeout.
C18_FailuresDistinguishable ==
    (uart_pc = "returned" /\ RecvTest(uart_msg) = "false")
        => uart_result # NoResult

\* C19: pack yields a frame for every payload, the length 256 included:
\* marker 2 and a 1-byte length up to 256 bytes, otherwise marker 3 and a
\* 2-byte big-endian length; then the payload, crc16 of the payload as two
\* big-endian bytes and the end marker 3.
C19_PackFormat ==
    uart_pc # "idle" =>
        LET n == Len(uart_payload)
            header == IF n <= 256 THEN <<2, n>>
                      ELSE <<3, n \div 256, n % 256>>
            crc == crc16(uart_payload)
        IN  /\ pack_payload(uart_payload)
                  = header \o uart_payload \o <<crc \div 256, crc % 256, 3>>
            /\ \A i \in 1..Len(header) : header[i] \in 0..255

\* C20: a GET_VALUES response with a valid CRC whose payload is shorter than
\* the full field list does not make get_values fail.
C20_ShortValuesAccepted ==
    (fn_op = "get_values" /\ RecvTest(fn_in) = "true") => fn_out.ok

\* C26: STATUS decoding, for every 8-byte payload: RPM is the unsigned 32-bit
\* big-endian value of bytes 0..3 and the current is the signed 16-bit
\* big-endian value of bytes 4..5 divided by 10; the STATUS_5 voltage is the
\* unsigned 16-bit big-endian value of bytes 4..5 divided by 10.
C26_StatusDecoding ==
    /\ fn_op = "status" =>
          /\ fn_out.rpm = <<fn_in[1] * 256 + fn_in[2], fn_in[3] * 256 + fn_in[4]>>
          /\ fn_out.current.scale = 10
          /\ fn_out.current.raw =
                IF fn_in[5] >= 128
                THEN fn_in[5] * 256 + fn_in[6] - 65536
                ELSE fn_in[5] * 256 + fn_in[6]
    /\ fn_op = "status_5" =>
          /\ fn_out.voltage.scale = 10
          /\ fn_out.voltage.raw = fn_in[5] * 256 + fn_in[6]

\* ERPM bytes 00 00 03 E8 and current bytes 00 64 were decoded to RPM 1000
\* and 100 / 10 = 10.0 A.
C26_Witness ==
    /\ fn_op = "status"
    /\ SubSeq(fn_in, 1, 6) = <<0, 0, 3, 232, 0, 100>>
    /\ fn_out.rpm = <<0, 1000>>
    /\ fn_out.current = [raw |-> 100, scale |-> 10]

\* C28: get_can_id(command_id, node_id) is command_id * 256 + node_id for all
\* ids in 0..255, so get_can_id(9, 1) = 0x0901 and get_can_id(27, 1) =
\* 0x1B01, and the pair is recovered from the identifier: distinct pairs give
\* distinct identifiers.
C28_ExtendedId ==
    fn_op = "get_can_id" =>
        /\ fn_out = fn_in[1] * 256 + fn_in[2]
        /\ fn_out \div 256 = fn_in[1]
        /\ fn_out % 256 = fn_in[2]
        /\ fn_in = <<9, 1>> => fn_out = 2305
        /\ fn_in = <<27, 1>> => fn_out = 6913

\* get_can_id(27, 1) was computed as 0x1B01.
C28_Witness == fn_op = "get_can_id" /\ fn_in = <<27, 1>> /\ fn_out = 6913

\* C29: calc_crc of 01 03 00 04 00 02 is the value whose little-endian bytes
\* are 85 CA, and each hard-coded request frame ends with calc_crc of its
\* first six bytes, low byte first.
C29_RequestFrameCrc ==
    fn_op = "calc_crc" =>
        /\ fn_in[7] = fn_out % 256
        /\ fn_in[8] = fn_out \div 256
        /\ SubSeq(fn_in, 1, 6) = <<1, 3, 0, 4, 0, 2>>
              => (fn_out % 256 = 133 /\ fn_out \div 256 = 202)

\* calc_crc was applied to the watts request 01 03 00 04 00 02.
C29_Witness ==
    /\ fn_op = "calc_crc"
    /\ fn_in = <<1, 3, 0, 4, 0, 2, 133, 202>>
    /\ fn_out = 51845

\* The reference CRC-16/CCITT: seed 0, each byte XORed into the high 8 bits,
\* 8 rounds of shift-left with XOR 0x1021 when the MSB is set, masked to 16
\* bits every round.
RefRound(crc) ==
    (IF (crc \div 32768) % 2 = 1 THEN Xor(crc * 2, 4129) ELSE crc * 2) % 65536

RefByte(crc, byte) ==
    RefRound(RefRound(RefRound(RefRound(
        RefRound(RefRound(RefRound(RefRound(Xor(crc, byte * 256)))))))))

RECURSIVE RefCrc(_, _)
RefCrc(data, n) ==
    IF n = 0 THEN 0 ELSE RefByte(RefCrc(data, n - 1), data[n])

\* C30: _crc16 returns, for every byte sequence, the same 16-bit value as the
\* reference CRC-16/CCITT that masks to 16 bits every round.
C30_Crc16MatchesReference ==
    fn_op = "_crc16" =>
        /\ fn_out = RefCrc(fn_in, Len(fn_in))
        /\ fn_out \in 0..65535
        /\ fn_in = <<49, 50, 51, 52, 53, 54, 55, 56, 57>> => fn_out = 12739

\* A sequence of MaxCrcLen bytes whose first round already leaves 16 bits in
\* the code (0xFF00 shifted left) was hashed.
C30_Witness ==
    /\ fn_op = "_crc16"
    /\ Len(fn_in) = MaxCrcLen
    /\ fn_in[1] = 255
    /\ Crc16Round(fn_in[1] * 256) > 65535
    /\ fn_out = RefCrc(fn_in, Len(fn_in))

\* What the status label shows after a connect that found no device, and
\* after one whose set_bitrate was refused.
FailedConnectLabels ==
    {"No gs_usb device detected.", "Failed to set CAN bitrate."}

\* C21: when connect fails because the scan finds no device or because
\* set_bitrate is refused, the session remains Idle: it is not marked
\* active, no reader or keep-alive thread is started, and start_logging is
\* rejected for as long as nothing else was done.
C21_FailedConnectStaysIdle ==
    [][vr_status_label' \in FailedConnectLabels =>
          /\ ~vr_active'
          /\ vr_threads' = vr_threads
          /\ ~VrStartGuard']_vars

\* set_bitrate was refused on the first connect.
C21_Witness ==
    /\ vr_status_label = "Failed to set CAN bitrate."
    /\ vr_device = "None"
    /\ ~vr_active
    /\ vr_threads = 0

\* C22: if from some point on the session stays connected with a working
\* adapter, a keep-alive frame is sent again and again, whatever the reader
\* receives.
C22_KeepAliveRecurs ==
    <>[](vr_active /\ vr_device = "Dev" /\ vr_dev_started /\ ~vr_dev_fault)
        => []<><<\E t \in VrThreads : VrSenderSend(t)>>_vars

\* A keep-alive frame has been sent and the reader's last read timed out,
\* with the session still connected.
C22_Witness ==
    /\ vr_active
    /\ vr_device = "Dev"
    /\ ~vr_dev_fault
    /\ vr_sent # NoSent
    /\ \E t \in VrThreads :
          vr_frame[t].kind = "timeout" /\ vr_sender_pc[t] = "send"

\* C23: stop(), called while the reader is connected, stops the CAN device
\* and releases the handle.
C23_StopReleasesDevice ==
    [][(vr_window = "open" /\ vr_window' = "destroyed" /\ vr_active)
          => (~vr_dev_started' /\ vr_device' = "None")]_vars

\* C24: a frame that is not extended, or does not carry the no-echo sentinel,
\* or carries the error flag, is silently dropped: the read that delivers it
\* changes no session state, appends no row, sets no error on the status
\* label, and the reader goes on to its next iteration.
C24_RejectedFramesDropped ==
    [][\A t \in VrThreads :
          (/\ vr_reader_pc[t] = "read"
           /\ vr_frame'[t].kind = "frame"
           /\ ~(/\ vr_frame'[t].is_extended
                /\ vr_frame'[t].echo_none
                /\ ~vr_frame'[t].err))
            => /\ UNCHANGED <<vr_device, vr_dev_started, vr_active, vr_logging,
                             vr_start_time, vr_log_data, vr_plot_data,
                             vr_rpm_label, vr_status_label>>
               /\ vr_reader_pc'[t] = "check"]_vars

\* While logging, a reader has just read a frame without the no-echo
\* sentinel and the log is still empty.
C24_Witness ==
    /\ vr_active
    /\ vr_logging
    /\ vr_log_data = <<>>
    /\ \E t \in VrThreads :
          /\ vr_reader_pc[t] = "check"
          /\ vr_frame[t].kind = "frame"
          /\ ~vr_frame[t].echo_none

\* C25: an accepted STATUS frame with fewer than 8 data bytes, or STATUS_5
\* frame with fewer than 6, is dropped with a diagnostic: it appends no row,
\* changes no session state and does not end the session.
C25_ShortFramesDropped ==
    [][\A t \in VrThreads :
          (/\ vr_reader_pc[t] = "read"
           /\ vr_frame'[t].kind = "frame"
           /\ vr_frame'[t].is_extended
           /\ vr_frame'[t].echo_none
           /\ ~vr_frame'[t].err
           /\ \/ vr_frame'[t].can_id = 2305 /\ Len(vr_frame'[t].data) < 8
              \/ vr_frame'[t].can_id = 6913 /\ Len(vr_frame'[t].data) < 6)
            => /\ vr_frame'[t].branch =
                    IF vr_frame'[t].can_id = 2305
                    THEN "CAN_PACKET_STATUS frame has insufficient data."
                    ELSE "CAN_PACKET_STATUS_5 frame has insufficient data."
               /\ UNCHANGED <<vr_device, vr_dev_started, vr_active, vr_logging,
                             vr_start_time, vr_log_data, vr_plot_data,
                             vr_rpm_label, vr_status_label>>
               /\ vr_reader_pc'[t] = "check"]_vars

\* While logging, a reader has just read a STATUS_5 frame of five bytes and
\* the session is still connected, with nothing logged.
C25_Witness ==
    /\ vr_active
    /\ vr_logging
    /\ vr_log_data = <<>>
    /\ \E t \in VrThreads :
          /\ vr_reader_pc[t] = "check"
          /\ vr_frame[t].kind = "frame"
          /\ vr_frame[t].can_id = 6913
          /\ Len(vr_frame[t].data) = 5

\* C27: every keep-alive frame sent has identifier (10 << 8) | node id, is
\* flagged extended and non-remote, has data length 4, and its data is the
\* 32-bit big-endian encoding of zero.
C27_KeepAliveFrame ==
    vr_sent # NoSent =>
        vr_sent = [kind |-> "frame", can_id |-> 2561, is_extended |-> TRUE,
                   is_remote |-> FALSE, data |-> <<0, 0, 0, 0>>, dlc |-> 4]

\* A keep-alive frame was sent on a connected session.
C27_Witness ==
    /\ vr_sent # NoSent
    /\ vr_sent.data = <<0, 0, 0, 0>>
    /\ vr_active
    /\ \E t \in VrThreads : vr_sender_pc[t] = "check"

(***************************************************************************)
(* C31: when a command addresses a node behind the bridge, the payload     *)
(* passed to pack is [FORWARD_CAN (33), node_id] followed by the command   *)
(* id and the parameters, for every node id; when no node is addressed the *)
(* payload starts directly with the command id.                            *)
(* Not what the code does: node id 0 is never forwarded.                   *)
(***************************************************************************)
C31_ForwardCanPrefix ==
    fn_op = "command" =>
        LET body == CASE fn_in.cmd = "get_values" -> <<4>>
                      [] fn_in.cmd = "send_keepalive" -> <<29>>
                      [] fn_in.cmd = "set_current" ->
                           <<6>> \o StructPackFloat(fn_in.arg * 1000)
                      [] fn_in.cmd = "set_rpm" ->
                           <<8>> \o StructPackInt(fn_in.arg)
                      [] fn_in.cmd = "set_duty" ->
                           <<5>> \o StructPackInt(fn_in.arg * 100000)
        IN  IF fn_in.node.addressed
            THEN fn_out.payload = <<33, fn_in.node.can_id>> \o body
            ELSE fn_out.payload = body

(***************************************************************************)
(* C32: after any sequence of connect, disconnect, start-logging and       *)
(* stop-logging actions (a stop immediately followed by a start included)  *)
(* at most one reader task and at most one keep-alive task are running     *)
(* against a transport handle at any time, and a task started for an       *)
(* earlier session never continues into a later session.                   *)
(* Not what the code does: stop_can_logging joins no thread, and a thread  *)
(* that has not re-tested its while condition before the next start finds  *)
(* the condition true again.                                               *)
(***************************************************************************)
C32_OneTaskPerHandle ==
    /\ [](/\ Cardinality({t \in CanThreads :
                             reader_pc[t] \notin {"none", "done"}}) <= 1
          /\ Cardinality({t \in CanThreads :
                             sender_pc[t] \notin {"none", "done"}}) <= 1)
    /\ [][\A t \in CanThreads :
            /\ (reader_pc[t] = "check" /\ reader_pc'[t] = "read")
                  => t = can_threads
            /\ (sender_pc[t] = "check" /\ sender_pc'[t] = "send")
                  => t = can_threads]_vars

(***************************************************************************)
(* C33: after any sequence of Connect, Start Logging and Stop Logging      *)
(* button actions and timer firings, at most one periodic polling callback *)
(* chain (schedule_update) and at most one periodic logging callback chain *)
(* (update_logging) is pending.                                            *)
(* Not what the code does: connect_serial and start_logging arm a new      *)
(* chain without cancelling the one already pending.                       *)
(***************************************************************************)
C33_OneCallbackChain == wl_timers <= 1 /\ wl_log_timers <= 1

(***************************************************************************)
(* C34: the value returned for a Modbus query is decoded only from bytes   *)
(* the device sent in answer to that same request; a response that arrives *)
(* after its own request's 50 ms window has closed is never decoded as the *)
(* answer to a later request (a late torque response is never reported as  *)
(* speed).                                                                 *)
(* Not what the code does: reset_input_buffer discards only what arrived   *)
(* before the next request is written.                                     *)
(***************************************************************************)
C34_ResponseOfSameRequest ==
    /\ ln_torque.value # <<>> => ln_torque.from = ln_torque.req
    /\ ln_speed.value # <<>> => ln_speed.from = ln_speed.req

(***************************************************************************)
(* C35: the payload accepted by VescUart.get_values is the response to the *)
(* request written in that same call; bytes left in the serial input by an *)
(* earlier call (a response that arrived after that call's timeout, or the *)
(* tail of a rejected frame) are never parsed as the start of the new      *)
(* response.                                                               *)
(* Not what the code does: get_values never empties the serial input.      *)
(***************************************************************************)
C35_ValuesOfSameRequest ==
    ln_result.ok => ln_result.from = {ln_result.req}

(***************************************************************************)
(* C36: VescUart.get_values returns True only if the data record was       *)
(* updated from the frame just received (first payload byte GET_VALUES,    *)
(* 4); a CRC-valid frame longer than 55 bytes that carries another command *)
(* id never makes poll_data log a sample built from stale or default field *)
(* values.  Every COMM_GET_VALUES reply on the line carries a current and  *)
(* a voltage other than the defaults, so a logged row of defaults was      *)
(* built without a decoded frame.                                          *)
(* Not what the code does: get_values tests the length only.               *)
(***************************************************************************)
C36_NoSampleFromDefaults ==
    \A i \in 1..Len(vesc_log_data) :
        vesc_log_data[i] # [current |-> 0, voltage |-> 0]

(***************************************************************************)
(* C37: a sample logged for a STATUS frame carries the voltage of the most *)
(* recent STATUS_5 frame decoded in the current logging session, or 0 when *)
(* none has been decoded in this session; a sample logged for a STATUS_5   *)
(* frame carries the current of the most recent STATUS frame of the        *)
(* current session, or 0; a value from a previous session is never         *)
(* backfilled.  A STATUS row has an integer rpm, a STATUS_5 row the text   *)
(* of the RPM label; the session a frame was decoded in is the session of  *)
(* its timestamp.                                                          *)
(* Not what the code does: a reader thread of the previous session can     *)
(* append its value to the series of the new session.                      *)
(***************************************************************************)
C37_BackfillOfCurrentSession ==
    \A i \in 1..Len(can_log_data) :
        LET row == can_log_data[i]
            other == IF row.rpm[1] = "int" THEN "str" ELSE "int"
            prior == {j \in 1..(i - 1) :
                        /\ can_log_data[j].rpm[1] = other
                        /\ can_log_data[j].timestamp.session = can_threads}
            last == CHOOSE j \in prior : \A k \in prior : k <= j
        IN  IF row.rpm[1] = "int"
            THEN row.voltage = IF prior = {} THEN 0
                               ELSE can_log_data[last].voltage
            ELSE row.current = IF prior = {} THEN 0
                               ELSE can_log_data[last].current

(***************************************************************************)
(* C38: in the Modbus loggers a sample is appended only in a poll tick in  *)
(* which both the torque query and the speed query returned a valid value; *)
(* the time, torque and speed series have equal length in every reachable  *)
(* state, and a tick in which either query fails appends nothing.  Each    *)
(* row carries the two buffers it was parsed from: both have at least 9    *)
(* bytes and byte count 4, and the row and the series hold their values.   *)
(***************************************************************************)
C38_SampleOnlyWhenBothValid ==
    /\ Len(modbus_series.time) = Len(modbus_log_data)
    /\ Len(modbus_series.torque) = Len(modbus_log_data)
    /\ Len(modbus_series.speed) = Len(modbus_log_data)
    /\ \A i \in 1..Len(modbus_log_data) :
         LET row == modbus_log_data[i]
         IN  /\ Len(row.tframe) >= 9 /\ row.tframe[3] = 4
             /\ Len(row.sframe) >= 9 /\ row.sframe[3] = 4
             /\ row.torque = (row.tframe[6] * 256) + row.tframe[7]
             /\ row.speed = (row.sframe[6] * 256) + row.sframe[7]
             /\ modbus_series.torque[i] = row.torque
             /\ modbus_series.speed[i] = row.speed

\* A tick in which a query failed, after a tick that logged: the log and the
\* three series still hold the one sample.
C38_Witness ==
    /\ modbus_last_tick = "failed"
    /\ Len(modbus_log_data) = 1
    /\ Len(modbus_series.time) = 1
    /\ Len(modbus_series.torque) = 1
    /\ Len(modbus_series.speed) = 1

(***************************************************************************)
(* C39: for every Modbus response buffer, the torque value decoded by the  *)
(* combined logger (CombinedLoggerApp.send_modbus_frame) equals the torque *)
(* value decoded by the bare-bones display (ModbusActiveApp.send_raw_frame *)
(* with signed=True), raw values 0x8000..0xFFFF included.                  *)
(* Not what the code does: the combined logger reads the word unsigned.    *)
(***************************************************************************)
C39_DashboardsAgreeOnTorque ==
    fn_op = "torque" => fn_out.combined = fn_out.bare

=============================================================================
